---- MODULE Spec2Model ----
(***************************************************************************)
(* Purchase-request approval workflow of the ERP's "financiero" module:    *)
(* the threshold policy and state machine (financiero.states.js), the      *)
(* repository statements (financiero.repository.js), the transaction       *)
(* wrapper (shared/database/pool.js) and the orchestrating service         *)
(* (financiero.service.js).  Worker processes execute the service          *)
(* functions statement by statement against one PostgreSQL database        *)
(* (READ COMMITTED, row locks taken by UPDATE, NOW() = transaction start). *)
(***************************************************************************)
EXTENDS Integers, Sequences, FiniteSets, TLC

VARIABLES
    UMBRALES_APROBACION,   \* thresholds read from the environment at start
    solicitudes_compra,    \* committed table: id -> row
    aprobaciones_compra,   \* committed table: set of ledger rows
    reloj,                 \* the database clock behind NOW()
    restantes,             \* number of service calls that may still be started
    pc,                    \* per worker: position inside the service function
    llamada,               \* per worker: the call being served and its arguments
    solicitud,             \* per worker: local `solicitud` read before the transaction
    tx,                    \* per worker: the open transaction (start time, pending writes)
    error,                 \* per worker: the error in flight (thrown, not yet delivered)
    resultado,             \* per worker: what the last finished call returned or threw
    historial,             \* per worker: rows the history query of the call returned
    evaluacion,            \* last evaluation of a pure state-machine function
    solicitud_compra_items,\* committed table: set of item rows
    secuencia,             \* last value of solicitudes_compra_id_seq (SERIAL)
    registro,              \* what withTransaction did to the pool and its client, in order
    resultados             \* per worker: local `resultados`, the listings answered so far

vars == <<UMBRALES_APROBACION, solicitudes_compra, aprobaciones_compra, reloj, restantes,
          pc, llamada, solicitud, tx, error, resultado, historial, evaluacion,
          solicitud_compra_items, secuencia, registro, resultados>>

dbvars == <<solicitudes_compra, aprobaciones_compra, solicitud_compra_items>>

----------------------------------------------------------------------------
(* Bounds of the model *)

MaxOps == 3        \* service calls started in one behaviour
MaxOpsSecuencial == 4   \* the same, when one worker serves the calls one at a time
MaxOpsFila == 2    \* the same, when the stored request starts in an arbitrary stage
MaxUmbral == 3     \* thresholds range over 0..MaxUmbral in the pure specification
MaxMonto == 4      \* amounts range over 0..MaxMonto in the pure specification

Procs == {"w1", "w2"}

----------------------------------------------------------------------------
(* financiero.states.js *)

UMBRAL_JEFE_DEFECTO == 5000000
UMBRAL_GERENCIA_DEFECTO == 20000000

BORRADOR            == "borrador"
PENDIENTE_JEFE      == "pendiente_jefe"
PENDIENTE_GERENCIA  == "pendiente_gerencia"
PENDIENTE_TESORERIA == "pendiente_tesoreria"
APROBADA            == "aprobada"
RECHAZADA           == "rechazada"
ANULADA             == "anulada"
EN_PROCESO          == "en_proceso"
COMPLETADA          == "completada"

ESTADOS_COMPRA ==
    {BORRADOR, PENDIENTE_JEFE, PENDIENTE_GERENCIA, PENDIENTE_TESORERIA,
     APROBADA, RECHAZADA, ANULADA, EN_PROCESO, COMPLETADA}

NULL == "null"     \* JavaScript null / undefined, SQL NULL (0 where the column is numeric)

\* flujo.push(x) when cond
PushIf(flujo, cond, x) == IF cond THEN Append(flujo, x) ELSE flujo

\* variant: the thresholds compared with > instead of >=
calcularFlujoEstricto(monto) ==
    LET f1 == <<PENDIENTE_JEFE>>
        f2 == PushIf(f1, monto > UMBRALES_APROBACION.JEFE_AREA, PENDIENTE_GERENCIA)
        f3 == PushIf(f2, monto > UMBRALES_APROBACION.GERENCIA, PENDIENTE_TESORERIA)
    IN  Append(f3, APROBADA)

calcularFlujoAprobacion(monto) ==
    LET f1 == <<PENDIENTE_JEFE>>
        f2 == PushIf(f1, monto >= UMBRALES_APROBACION.JEFE_AREA, PENDIENTE_GERENCIA)
        f3 == PushIf(f2, monto >= UMBRALES_APROBACION.GERENCIA, PENDIENTE_TESORERIA)
    IN  Append(f3, APROBADA)

\* Array.prototype.indexOf: 0-based position of the first occurrence, -1 when absent
indexOf(arr, x) ==
    IF \E i \in 1..Len(arr) : arr[i] = x
    THEN (CHOOSE i \in 1..Len(arr) : arr[i] = x /\ \A j \in 1..(i-1) : arr[j] # x) - 1
    ELSE -1

\* arr[i] || null  (0-based; an index outside the array yields undefined)
ElementoONull(arr, i) == IF i >= 0 /\ i < Len(arr) THEN arr[i + 1] ELSE NULL

\* variant: the entry after the next one
siguienteEstadoSaltando(estadoActual, monto) ==
    LET flujo == calcularFlujoAprobacion(monto)
        indexActual == indexOf(flujo, estadoActual)
    IN  ElementoONull(flujo, indexActual + 2)

siguienteEstado(estadoActual, monto) ==
    LET flujo == calcularFlujoAprobacion(monto)
        indexActual == indexOf(flujo, estadoActual)
    IN  ElementoONull(flujo, indexActual + 1)

\* variant: the table without 'gerente' at pendiente_jefe
ROLES_SIN_GERENTE_EN_JEFE(estado) ==
    CASE estado = PENDIENTE_JEFE      -> {"jefe_area", "admin"}
      [] estado = PENDIENTE_GERENCIA  -> {"gerente", "admin"}
      [] estado = PENDIENTE_TESORERIA -> {"tesorero", "admin"}
      [] OTHER                        -> {}

ROLES_POR_ESTADO(estado) ==
    CASE estado = PENDIENTE_JEFE      -> {"jefe_area", "gerente", "admin"}
      [] estado = PENDIENTE_GERENCIA  -> {"gerente", "admin"}
      [] estado = PENDIENTE_TESORERIA -> {"tesorero", "admin"}
      [] OTHER                        -> {}

puedeAprobar(rol, estadoActual) == rol \in ROLES_POR_ESTADO(estadoActual)

----------------------------------------------------------------------------
(* financiero.schema.js and middlewares/validate.middleware.js.  A JavaScript     *)
(* value that may be undefined, null or a string is a record; a string is the      *)
(* sequence of its characters, a character outside ASCII (and the vertical tab)     *)
(* being written by its code point, "U+00A0".                                       *)

UNDEFINED == [tipo |-> "undefined", texto |-> <<>>]
NULO      == [tipo |-> "null", texto |-> <<>>]
Cadena(caracteres) == [tipo |-> "string", texto |-> caracteres]

\* the characters String.prototype.trim removes: WhiteSpace (TAB, VT, FF, SP, NBSP,
\* ZWNBSP and the space separators) and LineTerminator (LF, CR, LS, PS) of ECMAScript
ESPACIOS ==
    {"\t", "U+000B", "\f", " ", "U+00A0", "U+FEFF",
     "U+1680", "U+2000", "U+2001", "U+2002", "U+2003", "U+2004", "U+2005", "U+2006",
     "U+2007", "U+2008", "U+2009", "U+200A", "U+202F", "U+205F", "U+3000",
     "\n", "\r", "U+2028", "U+2029"}

RECURSIVE trimStart(_)
trimStart(t) ==
    IF t # <<>> /\ Head(t) \in ESPACIOS THEN trimStart(Tail(t)) ELSE t

RECURSIVE trimEnd(_)
trimEnd(t) ==
    IF t # <<>> /\ t[Len(t)] \in ESPACIOS THEN trimEnd(SubSeq(t, 1, Len(t) - 1)) ELSE t

trim(t) == trimEnd(trimStart(t))

MAX_COMENTARIO == 1000

\* Joi.string().trim(), convert on: a string is trimmed before it is validated
ComentarioConvertido(c) == IF c.tipo = "string" THEN Cadena(trim(c.texto)) ELSE c

\* variant: then: Joi.required() only, the empty string allowed as in `otherwise`
ComentarioRequeridoValido(accion, c) ==
    IF accion = "rechazar"
    THEN c.tipo = "string" /\ Len(c.texto) <= MAX_COMENTARIO
    ELSE \/ c.tipo \in {"undefined", "null"}
         \/ c.tipo = "string" /\ Len(c.texto) <= MAX_COMENTARIO

\* comentario: Joi.string().trim().max(1000).when('accion', { is: 'rechazar',
\*   then: Joi.required(), otherwise: Joi.optional().allow('', null) })
\* applied to the converted value c
ComentarioValido(accion, c) ==
    IF accion = "rechazar"
    THEN c.tipo = "string" /\ c.texto # <<>> /\ Len(c.texto) <= MAX_COMENTARIO
    ELSE \/ c.tipo \in {"undefined", "null"}
         \/ c.tipo = "string" /\ Len(c.texto) <= MAX_COMENTARIO

\* accionAprobacionSchema.validate(body, {abortEarly: false, stripUnknown: true}):
\* {error, value}
accionAprobacionSchema(body) ==
    LET c == ComentarioConvertido(body.comentario)
    IN  [error |-> ~(body.accion \in {"aprobar", "rechazar"}
                     /\ ComentarioValido(body.accion, c)),
         value |-> [accion |-> body.accion, comentario |-> c]]

----------------------------------------------------------------------------
(* Callers: the authenticated user (req.user.sub, req.user.rol) of a request *)

USUARIOS ==
    {[sub |-> 1, rol |-> "empleado"],
     [sub |-> 2, rol |-> "jefe_area"],
     [sub |-> 3, rol |-> "gerente"],
     [sub |-> 4, rol |-> "tesorero"],
     [sub |-> 5, rol |-> "admin"]}

ROLES == {u.rol : u \in USUARIOS}

SOLICITANTES == {1}              \* users who created the stored request

\* arguments of the calls to enviarSolicitud: by the requester and by another user on
\* the stored request, and on an id no row has
ENVIOS_PEDIDOS ==
    {[solicitudId |-> 1, sub |-> 1], [solicitudId |-> 1, sub |-> 3],
     [solicitudId |-> 2, sub |-> 1]}
MONTOS == {4000000, 5000000, 20000000}   \* monto_total of the stored request
ACCIONES == {"aprobar", "rechazar"}      \* accionAprobacionSchema: valid('aprobar','rechazar')

\* the comment of a call to procesarAprobacion that passed accionAprobacionSchema:
\* none with an approval, a reason with a rejection
MOTIVO == Cadena(<<"n", "o">>)
ComentarioHabitual(accion) == IF accion = "rechazar" THEN MOTIVO ELSE UNDEFINED

\* arguments of the calls to procesarAprobacion: every user with every action on the
\* stored request, and one call on an id no row has
APROBACIONES_PEDIDAS ==
    {[solicitudId |-> 1, usuario |-> u, accion |-> a, comentario |-> ComentarioHabitual(a)] :
        u \in USUARIOS, a \in ACCIONES}
    \cup {[solicitudId |-> 2, usuario |-> u, accion |-> "aprobar", comentario |-> UNDEFINED] :
              u \in {v \in USUARIOS : v.rol = "admin"}}

\* comments of the bodies sent to PATCH /:id/aprobacion: absent, null, empty, white
\* space only (a space and a Windows line end), a reason, and a reason with white
\* space around it (a tab and a no-break space before, a Windows line end after)
COMENTARIOS_PEDIDOS ==
    {UNDEFINED, NULO, Cadena(<<>>), Cadena(<<" ", "\r", "\n">>), MOTIVO,
     Cadena(<<"\t", "U+00A0", "n", "o", "\r", "\n">>)}

\* requests to PATCH /:id/aprobacion, all by the admin on the stored request: both
\* actions with every comment, and one action the schema does not know
CUERPOS_PEDIDOS ==
    {[solicitudId |-> 1, usuario |-> u, body |-> [accion |-> a, comentario |-> c]] :
        u \in {v \in USUARIOS : v.rol = "admin"}, a \in ACCIONES, c \in COMENTARIOS_PEDIDOS}
    \cup {[solicitudId |-> 1, usuario |-> u, body |-> [accion |-> "anular", comentario |-> MOTIVO]] :
              u \in {v \in USUARIOS : v.rol = "admin"}}

\* the item lists of the bodies POST / is called with, as validate(crearSolicitudSchema)
\* passes them on: one to fifty items, cantidad and precio_unitario positive (whole
\* numbers here)
ITEMS_PEDIDOS ==
    { <<[cantidad |-> 1, precio_unitario |-> 4000000]>>,
      <<[cantidad |-> 2, precio_unitario |-> 2500000],
        [cantidad |-> 1, precio_unitario |-> 15000000]>> }

\* the calls to crearSolicitud: the body and req.user.sub
CREACIONES_PEDIDAS ==
    {[sub |-> 1, datos |-> [urgente |-> u, items |-> its]] :
        u \in BOOLEAN, its \in ITEMS_PEDIDOS}

CONSULTAS_PEDIDAS == {1, 2}      \* ids of the calls to obtenerSolicitudConHistorial

\* thresholds the environment may hold when the process starts
UMBRALES_DE_ENTORNO ==
    {[JEFE_AREA |-> UMBRAL_JEFE_DEFECTO, GERENCIA |-> UMBRAL_GERENCIA_DEFECTO],
     [JEFE_AREA |-> UMBRAL_JEFE_DEFECTO, GERENCIA |-> 30000000]}

----------------------------------------------------------------------------
(* DDL Financiero and financiero.repository.js *)

\* table usuarios: id -> row
usuarios ==
    [id \in {u.sub : u \in USUARIOS} |->
        [nombre |-> <<"Ana", "Bruno", "Carla", "Diego", "Elena">>[id]]]

\* a row of solicitudes_compra as the INSERT of crearSolicitud writes it: estado
\* 'borrador', urgente FALSE unless given, the columns not named left at their defaults
FilaNueva(monto, solicitanteId) ==
    [estado |-> BORRADOR, monto_total |-> monto, solicitante_id |-> solicitanteId,
     updated_by |-> 0, updated_at |-> 0, deleted_at |-> NULL,
     urgente |-> FALSE, created_at |-> 0]

\* rows[0] || null when the SELECT returns no row
SIN_FILA ==
    [estado |-> NULL, monto_total |-> 0, solicitante_id |-> 0,
     updated_by |-> 0, updated_at |-> 0, deleted_at |-> NULL,
     urgente |-> FALSE, created_at |-> 0]

\* a value of deleted_at other than NULL: a timestamp, of which the statements of this
\* module read only whether it IS NULL
BORRADA == "timestamptz"

\* no row of solicitudes_compra
SIN_FILAS == [id \in {} |-> SIN_FILA]

\* a row of solicitud_compra_items; linea stands for its SERIAL id
ItemNuevo(solicitudId, linea, it, subtotal) ==
    [solicitud_id |-> solicitudId, linea |-> linea, cantidad |-> it.cantidad,
     precio_unitario |-> it.precio_unitario, subtotal |-> subtotal]

\* the columns of solicitud_compra_items declared GENERATED ALWAYS AS (...) STORED
COLUMNAS_GENERADAS == {"subtotal"}

\* PostgreSQL rejects an INSERT that names a generated column with a value other
\* than DEFAULT (error 428C9, generated_always)
InsertAdmitido(columnas) == columnas \cap COLUMNAS_GENERADAS = {}

\* INSERT INTO solicitudes_compra (..., estado, urgente, ..., solicitante_id,
\* monto_total, created_at, updated_at) VALUES (..., 'borrador', $5, ..., $7, $8,
\* NOW(), NOW()) RETURNING *  inside transaction t; id is the value the sequence gave
crearSolicitud(t, id, datos) ==
    [t EXCEPT !.filas =
        [i \in {id} |->
            [FilaNueva(datos.montoTotal, datos.solicitanteId) EXCEPT
                !.urgente = datos.urgente,
                !.created_at = t.inicio,
                !.updated_at = t.inicio]]]

\* the column list of the INSERT of crearItemsSolicitud
COLUMNAS_DE_ITEMS ==
    {"solicitud_id", "descripcion", "cantidad", "precio_unitario", "subtotal"}

\* INSERT INTO solicitud_compra_items (solicitud_id, descripcion, cantidad,
\* precio_unitario, subtotal) VALUES ($1,...,$5),...  inside transaction t, with
\* it.cantidad * it.precio_unitario as fifth parameter of every item
crearItemsSolicitud(t, solicitudId, items) ==
    [t EXCEPT !.items =
        {ItemNuevo(solicitudId, i, items[i], items[i].cantidad * items[i].precio_unitario) :
            i \in 1..Len(items)}]

\* SELECT ... WHERE sc.id = $1 AND sc.deleted_at IS NULL ; rows[0] || null
obtenerSolicitudCompleta(id) ==
    IF id \in DOMAIN solicitudes_compra /\ solicitudes_compra[id].deleted_at = NULL
    THEN solicitudes_compra[id]
    ELSE SIN_FILA

\* UPDATE solicitudes_compra SET estado, updated_by, updated_at = NOW() WHERE id = $3
\* executed inside transaction t: the new row version stays pending until COMMIT
actualizarEstadoSolicitud(t, id, estado, usuarioId) ==
    [t EXCEPT !.update = [id |-> id, estado |-> estado, updated_by |-> usuarioId,
                          updated_at |-> t.inicio]]

\* a query parameter as the driver sends it: undefined is sent as NULL
Parametro(v) == IF v.tipo = "undefined" THEN NULO ELSE v

\* INSERT INTO aprobaciones_compra (...) VALUES (..., NOW()) inside transaction t
registrarAprobacion(t, solicitudId, nivel, accion, comentario, usuarioId, estadoResultante) ==
    [t EXCEPT !.inserts = @ \cup
        {[solicitud_id |-> solicitudId, nivel_aprobacion |-> nivel, accion |-> accion,
          comentario |-> Parametro(comentario), aprobador_id |-> usuarioId,
          estado_resultante |-> estadoResultante, created_at |-> t.inicio]}]

\* SELECT ... WHERE ac.solicitud_id = $1 (the rows, before ORDER BY)
FilasAprobaciones(solicitudId) ==
    {a \in aprobaciones_compra : a.solicitud_id = solicitudId}

\* ac.* , u.nombre AS aprobador_nombre  of  aprobaciones_compra ac JOIN usuarios u
FilaConAprobador(a) ==
    [c \in DOMAIN a \cup {"aprobador_nombre"} |->
        IF c = "aprobador_nombre" THEN usuarios[a.aprobador_id].nombre ELSE a[c]]

\* ORDER BY created_at ASC (no two rows of the model share created_at)
RECURSIVE OrdenadasPorCreatedAt(_)
OrdenadasPorCreatedAt(filas) ==
    IF filas = {} THEN <<>>
    ELSE LET primera == CHOOSE a \in filas : \A b \in filas : a.created_at <= b.created_at
         IN  <<primera>> \o OrdenadasPorCreatedAt(filas \ {primera})

\* SELECT ac.*, u.nombre AS aprobador_nombre FROM aprobaciones_compra ac
\* JOIN usuarios u ON ac.aprobador_id = u.id WHERE ac.solicitud_id = $1
\* ORDER BY ac.created_at ASC
obtenerHistorialAprobaciones(solicitudId) ==
    OrdenadasPorCreatedAt(
        {FilaConAprobador(a) :
            a \in {b \in FilasAprobaciones(solicitudId) : b.aprobador_id \in DOMAIN usuarios}})

----------------------------------------------------------------------------
(* shared/database/pool.js: transactions *)

SIN_UPDATE == [id |-> 0, estado |-> NULL, updated_by |-> 0, updated_at |-> 0]
SIN_TX ==
    [inicio |-> 0, update |-> SIN_UPDATE, inserts |-> {}, filas |-> SIN_FILAS, items |-> {}]

\* the row lock an UPDATE takes is held until the transaction ends
FilaBloqueada(id, p) ==
    \E q \in Procs \ {p} : tx[q].update # SIN_UPDATE /\ tx[q].update.id = id

\* variant: the UPDATE also resets monto_total
TablaConUpdateYMonto(t) ==
    IF t.update # SIN_UPDATE /\ t.update.id \in DOMAIN solicitudes_compra
    THEN [solicitudes_compra EXCEPT ![t.update.id] =
            [@ EXCEPT !.estado = t.update.estado,
                      !.updated_by = t.update.updated_by,
                      !.updated_at = t.update.updated_at,
                      !.monto_total = 0]]
    ELSE solicitudes_compra

\* solicitudes_compra with the pending UPDATE of transaction t applied
TablaConUpdate(t) ==
    IF t.update # SIN_UPDATE /\ t.update.id \in DOMAIN solicitudes_compra
    THEN [solicitudes_compra EXCEPT ![t.update.id] =
            [@ EXCEPT !.estado = t.update.estado,
                      !.updated_by = t.update.updated_by,
                      !.updated_at = t.update.updated_at]]
    ELSE solicitudes_compra

\* solicitudes_compra after COMMIT of transaction t
TablaTrasCommit(t) ==
    IF t.filas = SIN_FILAS
    THEN TablaConUpdate(t)
    ELSE [id \in DOMAIN solicitudes_compra \cup DOMAIN t.filas |->
            IF id \in DOMAIN t.filas THEN t.filas[id] ELSE TablaConUpdate(t)[id]]

\* solicitud_compra_items after COMMIT of transaction t
ItemsTrasCommit(t) == solicitud_compra_items \cup t.items

\* aprobaciones_compra after COMMIT of transaction t
LibroTrasCommit(t) == aprobaciones_compra \cup t.inserts

----------------------------------------------------------------------------
(* financiero.service.js: the checks made before the transaction *)

SIN_CUERPO == [accion |-> NULL, comentario |-> UNDEFINED]
SIN_DATOS == [urgente |-> FALSE, items |-> <<>>]
SIN_CALLBACK == [consultas |-> 0, lanza |-> FALSE]
SIN_LLAMADA == [fn |-> "ninguna", solicitudId |-> 0, usuarioId |-> 0, rol |-> NULL,
                accion |-> NULL, comentario |-> UNDEFINED, cuerpo |-> SIN_CUERPO,
                datos |-> SIN_DATOS, callback |-> SIN_CALLBACK]
SIN_VALOR == [solicitudId |-> 0]
SIN_ERROR == [tipo |-> "ninguno", valor |-> SIN_VALOR]
SIN_RESULTADO == [tipo |-> "ninguno", valor |-> SIN_VALOR]

\* variant: the stage check missing
ValidarEnvioSinEstado(sol, usuarioId) ==
    IF sol = SIN_FILA THEN "NotFound"
    ELSE IF sol.solicitante_id # usuarioId THEN "Forbidden"
    ELSE "ninguno"

\* variant: the stage check made before the owner check
ValidarEnvioEstadoPrimero(sol, usuarioId) ==
    IF sol = SIN_FILA THEN "NotFound"
    ELSE IF sol.estado # BORRADOR THEN "Validation"
    ELSE IF sol.solicitante_id # usuarioId THEN "Forbidden"
    ELSE "ninguno"

\* enviarSolicitud, lines 348-350: the error thrown, or "ninguno"
ValidarEnvio(sol, usuarioId) ==
    IF sol = SIN_FILA THEN "NotFound"
    ELSE IF sol.solicitante_id # usuarioId THEN "Forbidden"
    ELSE IF sol.estado # BORRADOR THEN "Validation"
    ELSE "ninguno"

estadosAprobables == {PENDIENTE_JEFE, PENDIENTE_GERENCIA, PENDIENTE_TESORERIA}

\* variant: the role check made before the stage check
ValidarAprobacionRolPrimero(sol, rol) ==
    IF sol = SIN_FILA THEN "NotFound"
    ELSE IF ~puedeAprobar(rol, sol.estado) THEN "Forbidden"
    ELSE IF sol.estado \notin estadosAprobables THEN "Validation"
    ELSE "ninguno"

\* variant: the role check missing
ValidarAprobacionSinRol(sol, rol) ==
    IF sol = SIN_FILA THEN "NotFound"
    ELSE IF sol.estado \notin estadosAprobables THEN "Validation"
    ELSE "ninguno"

\* procesarAprobacion, lines 367-384: the error thrown, or "ninguno"
ValidarAprobacion(sol, rol) ==
    IF sol = SIN_FILA THEN "NotFound"
    ELSE IF sol.estado \notin estadosAprobables THEN "Validation"
    ELSE IF ~puedeAprobar(rol, sol.estado) THEN "Forbidden"
    ELSE "ninguno"

nivelMap(estado) ==
    CASE estado = PENDIENTE_JEFE      -> 1
      [] estado = PENDIENTE_GERENCIA  -> 2
      [] estado = PENDIENTE_TESORERIA -> 3
      [] OTHER                        -> -1     \* undefined

\* variant: an approval advances along the longest path, whatever the amount
estadoResultanteSinMonto(accion, estadoActual, monto) ==
    IF accion = "rechazar" THEN RECHAZADA
    ELSE siguienteEstado(estadoActual, UMBRALES_APROBACION.GERENCIA)

\* variant: a rejection voids the request
estadoResultanteAnulando(accion, estadoActual, monto) ==
    IF accion = "rechazar" THEN ANULADA ELSE siguienteEstado(estadoActual, monto)

\* procesarAprobacion, lines 393-401: estadoResultante (NULL makes the callback throw)
estadoResultanteDe(accion, estadoActual, monto) ==
    IF accion = "rechazar" THEN RECHAZADA ELSE siguienteEstado(estadoActual, monto)

----------------------------------------------------------------------------
(* Initial states *)

SIN_EVALUACION ==
    [fn |-> "ninguna", monto |-> 0, estado |-> NULL, rol |-> NULL,
     flujo |-> <<>>, siguiente |-> NULL, puede |-> FALSE]

InitProcs ==
    /\ reloj = 1
    /\ pc = [p \in Procs |-> "idle"]
    /\ llamada = [p \in Procs |-> SIN_LLAMADA]
    /\ solicitud = [p \in Procs |-> SIN_FILA]
    /\ tx = [p \in Procs |-> SIN_TX]
    /\ error = [p \in Procs |-> SIN_ERROR]
    /\ resultado = [p \in Procs |-> SIN_RESULTADO]
    /\ historial = [p \in Procs |-> <<>>]
    /\ evaluacion = SIN_EVALUACION
    /\ registro = <<>>
    /\ resultados = [p \in Procs |-> <<>>]

\* parseFloat(process.env.UMBRAL_JEFE || '5000000'), parseFloat(... || '20000000')
UmbralesPorDefecto ==
    [JEFE_AREA |-> UMBRAL_JEFE_DEFECTO, GERENCIA |-> UMBRAL_GERENCIA_DEFECTO]

\* the items of the stored request id: one line of the whole amount
ItemsDe(id, monto) ==
    {ItemNuevo(id, 1, [cantidad |-> 1, precio_unitario |-> monto], monto)}

\* The database holds one request in borrador with its item; nothing was sent yet.
Init ==
    /\ UMBRALES_APROBACION = UmbralesPorDefecto
    /\ \E m \in MONTOS, u \in SOLICITANTES :
          /\ solicitudes_compra = [id \in {1} |-> FilaNueva(m, u)]
          /\ solicitud_compra_items = ItemsDe(1, m)
    /\ aprobaciones_compra = {}
    /\ secuencia = 1
    /\ restantes = MaxOps
    /\ InitProcs

\* The database holds one request in any stage the CHECK constraint of
\* solicitudes_compra.estado admits.
InitFila ==
    /\ UMBRALES_APROBACION = UmbralesPorDefecto
    /\ \E m \in MONTOS, u \in SOLICITANTES, e \in ESTADOS_COMPRA :
          /\ solicitudes_compra = [id \in {1} |-> [FilaNueva(m, u) EXCEPT !.estado = e]]
          /\ solicitud_compra_items = ItemsDe(1, m)
    /\ aprobaciones_compra = {}
    /\ secuencia = 1
    /\ restantes = MaxOpsFila
    /\ InitProcs

\* As Init, with the number of calls of the one-worker specifications.
InitSecuencial ==
    /\ UMBRALES_APROBACION = UmbralesPorDefecto
    /\ \E m \in MONTOS, u \in SOLICITANTES :
          /\ solicitudes_compra = [id \in {1} |-> FilaNueva(m, u)]
          /\ solicitud_compra_items = ItemsDe(1, m)
    /\ aprobaciones_compra = {}
    /\ secuencia = 1
    /\ restantes = MaxOpsSecuencial
    /\ InitProcs

\* No request at all: the thresholds are any pair the environment may set.
InitEstados ==
    /\ UMBRALES_APROBACION \in [JEFE_AREA : 0..MaxUmbral, GERENCIA : 0..MaxUmbral]
    /\ solicitudes_compra = SIN_FILAS
    /\ solicitud_compra_items = {}
    /\ aprobaciones_compra = {}
    /\ secuencia = 0
    /\ restantes = 0
    /\ InitProcs

----------------------------------------------------------------------------
(* Service calls.  A step is what one worker does between two awaits: the code    *)
(* after an await runs to completion when the awaited query answers.               *)

\* p serves a call that has not ended (a call lost with the process that served it
\* never ends, and its worker is free in the process started next)
EnCurso(p) == pc[p] \notin {"idle", "fin", "perdida"}

\* PATCH /:id/enviar -> service.enviarSolicitud(+req.params.id, req.user.sub)
LlamarEnviar(p) ==
    /\ ~EnCurso(p)
    /\ restantes > 0
    /\ \E c \in ENVIOS_PEDIDOS :
          llamada' = [llamada EXCEPT ![p] =
              [fn |-> "enviarSolicitud", solicitudId |-> c.solicitudId,
               usuarioId |-> c.sub, rol |-> NULL, accion |-> NULL,
               comentario |-> UNDEFINED, cuerpo |-> SIN_CUERPO, datos |-> SIN_DATOS,
               callback |-> SIN_CALLBACK]]
    /\ restantes' = restantes - 1
    /\ pc' = [pc EXCEPT ![p] = "leer"]
    /\ solicitud' = [solicitud EXCEPT ![p] = SIN_FILA]
    /\ resultado' = [resultado EXCEPT ![p] = SIN_RESULTADO]
    /\ UNCHANGED <<resultados, UMBRALES_APROBACION, secuencia, registro, historial, dbvars, reloj,
                   tx, error, evaluacion>>

\* PATCH /:id/aprobacion -> service.procesarAprobacion({solicitudId, accion, usuarioId, rol})
LlamarAprobacion(p) ==
    /\ ~EnCurso(p)
    /\ restantes > 0
    /\ \E c \in APROBACIONES_PEDIDAS :
          llamada' = [llamada EXCEPT ![p] =
              [fn |-> "procesarAprobacion", solicitudId |-> c.solicitudId,
               usuarioId |-> c.usuario.sub, rol |-> c.usuario.rol, accion |-> c.accion,
               comentario |-> c.comentario, cuerpo |-> SIN_CUERPO, datos |-> SIN_DATOS,
               callback |-> SIN_CALLBACK]]
    /\ restantes' = restantes - 1
    /\ pc' = [pc EXCEPT ![p] = "leer"]
    /\ solicitud' = [solicitud EXCEPT ![p] = SIN_FILA]
    /\ resultado' = [resultado EXCEPT ![p] = SIN_RESULTADO]
    /\ UNCHANGED <<resultados, UMBRALES_APROBACION, secuencia, registro, historial, dbvars, reloj,
                   tx, error, evaluacion>>

\* the error the checks before withTransaction throw for the call of p, having read sol
ErrorDeValidacion(p, sol) ==
    IF llamada[p].fn = "enviarSolicitud"
    THEN ValidarEnvio(sol, llamada[p].usuarioId)
    ELSE ValidarAprobacion(sol, llamada[p].rol)

\* const solicitud = await repo.obtenerSolicitudCompleta(solicitudId);
\* if (...) throw new NotFoundError / ForbiddenError / ValidationError;
\* return withTransaction(...)  up to  await pool.connect()
Leer(p) ==
    /\ pc[p] = "leer"
    /\ LET sol == obtenerSolicitudCompleta(llamada[p].solicitudId)
           err == ErrorDeValidacion(p, sol)
       IN  /\ solicitud' = [solicitud EXCEPT ![p] = sol]
           /\ IF err = "ninguno"
              THEN /\ pc' = [pc EXCEPT ![p] = "connect"]
                   /\ UNCHANGED resultado
              ELSE /\ pc' = [pc EXCEPT ![p] = "fin"]
                   /\ resultado' = [resultado EXCEPT ![p] =
                         [tipo |-> err, valor |-> SIN_VALOR]]
    /\ UNCHANGED <<resultados, UMBRALES_APROBACION, secuencia, registro, historial, dbvars, reloj,
                   restantes, llamada, tx, error, evaluacion>>

\* const client = await pool.connect();  then  client.query('BEGIN')  is sent
Conectar(p) ==
    /\ pc[p] = "connect"
    /\ pc' = [pc EXCEPT ![p] = "begin"]
    /\ UNCHANGED <<resultados, UMBRALES_APROBACION, secuencia, registro, historial, dbvars, reloj,
                   restantes, llamada, solicitud, tx,
                   error, resultado, evaluacion>>

\* the stage the callback of p writes: PENDIENTE_JEFE for enviarSolicitud,
\* estadoResultante for procesarAprobacion
EstadoAEscribir(p) ==
    IF llamada[p].fn = "enviarSolicitud"
    THEN PENDIENTE_JEFE
    ELSE estadoResultanteDe(llamada[p].accion, solicitud[p].estado,
                            solicitud[p].monto_total)

\* await client.query('BEGIN') answers (NOW() is frozen at the start of the
\* transaction); the callback of crearSolicitud sends its INSERT; the other two
\* compute estadoResultante, throw when there is none, and otherwise send the UPDATE
Begin(p) ==
    /\ pc[p] = "begin"
    /\ tx' = [tx EXCEPT ![p] = [SIN_TX EXCEPT !.inicio = reloj]]
    /\ reloj' = reloj + 1
    /\ IF llamada[p].fn = "crearSolicitud"
       THEN /\ pc' = [pc EXCEPT ![p] = "crear_solicitud"]
            /\ UNCHANGED error
       ELSE IF EstadoAEscribir(p) = NULL
       THEN /\ error' = [error EXCEPT ![p] = [tipo |-> "Validation", valor |-> SIN_VALOR]]
            /\ pc' = [pc EXCEPT ![p] = "rollback"]
       ELSE /\ pc' = [pc EXCEPT ![p] = "update"]
            /\ UNCHANGED error
    /\ UNCHANGED <<resultados, UMBRALES_APROBACION, secuencia, registro, historial, dbvars,
                   restantes, llamada, solicitud, resultado,
                   evaluacion>>

\* await repo.actualizarEstadoSolicitud(client, {...}) answers; the UPDATE waits
\* while another transaction holds the row
Update(p) ==
    /\ pc[p] = "update"
    /\ ~FilaBloqueada(llamada[p].solicitudId, p)
    /\ tx' = [tx EXCEPT ![p] =
          actualizarEstadoSolicitud(tx[p], llamada[p].solicitudId,
                                    EstadoAEscribir(p), llamada[p].usuarioId)]
    /\ pc' = [pc EXCEPT ![p] = "insert"]
    /\ UNCHANGED <<resultados, UMBRALES_APROBACION, secuencia, registro, historial, dbvars, reloj,
                   restantes, llamada, solicitud, error,
                   resultado, evaluacion>>

\* comentario: 'Solicitud enviada para aprobacion' (the accented o of the source is
\* written o: the strings of the model are ASCII)
COMENTARIO_ENVIO ==
    Cadena(<<"S", "o", "l", "i", "c", "i", "t", "u", "d", " ",
             "e", "n", "v", "i", "a", "d", "a", " ", "p", "a", "r", "a", " ",
             "a", "p", "r", "o", "b", "a", "c", "i", "o", "n">>)

\* variant: enviarSolicitud records the level of the stage it enters
TxConAprobacionNivelUno(p) ==
    IF llamada[p].fn = "enviarSolicitud"
    THEN registrarAprobacion(tx[p], llamada[p].solicitudId, 1, "envio",
                             COMENTARIO_ENVIO, llamada[p].usuarioId, PENDIENTE_JEFE)
    ELSE registrarAprobacion(tx[p], llamada[p].solicitudId,
                             nivelMap(solicitud[p].estado), llamada[p].accion,
                             llamada[p].comentario, llamada[p].usuarioId,
                             estadoResultanteDe(llamada[p].accion, solicitud[p].estado,
                                                solicitud[p].monto_total))

\* the transaction of p after the ledger row of its callback was inserted
TxConAprobacion(p) ==
    IF llamada[p].fn = "enviarSolicitud"
    THEN registrarAprobacion(tx[p], llamada[p].solicitudId, 0, "envio",
                             COMENTARIO_ENVIO, llamada[p].usuarioId, PENDIENTE_JEFE)
    ELSE registrarAprobacion(tx[p], llamada[p].solicitudId,
                             nivelMap(solicitud[p].estado), llamada[p].accion,
                             llamada[p].comentario, llamada[p].usuarioId,
                             EstadoAEscribir(p))

\* await repo.registrarAprobacion(client, {...}) answers; the callback returns and
\* COMMIT is sent
Insert(p) ==
    /\ pc[p] = "insert"
    /\ tx' = [tx EXCEPT ![p] = TxConAprobacion(p)]
    /\ pc' = [pc EXCEPT ![p] = "commit"]
    /\ UNCHANGED <<resultados, UMBRALES_APROBACION, secuencia, registro, historial, dbvars, reloj,
                   restantes, llamada, solicitud, error,
                   resultado, evaluacion>>

\* the value the callback returns: { ...solicitud, items } for crearSolicitud (the
\* inserted row under its id, and the item rows), `updated` (the row the UPDATE
\* returned) for enviarSolicitud, {solicitudId, estadoAnterior, estadoNuevo} for procesarAprobacion
ValorDeRetorno(p) ==
    IF llamada[p].fn = "crearSolicitud"
    THEN [solicitud |-> tx[p].filas, items |-> tx[p].items]
    ELSE IF llamada[p].fn = "enviarSolicitud"
    THEN [solicitudId |-> llamada[p].solicitudId,
          estado |-> tx[p].update.estado, updated_by |-> tx[p].update.updated_by]
    ELSE [solicitudId |-> llamada[p].solicitudId,
          estadoAnterior |-> solicitud[p].estado, estadoNuevo |-> tx[p].update.estado]

\* await client.query('COMMIT') answers; return result; finally client.release()
Commit(p) ==
    /\ pc[p] = "commit"
    /\ solicitudes_compra' = TablaTrasCommit(tx[p])
    /\ aprobaciones_compra' = LibroTrasCommit(tx[p])
    /\ solicitud_compra_items' = ItemsTrasCommit(tx[p])
    /\ resultado' = [resultado EXCEPT ![p] = [tipo |-> "ok", valor |-> ValorDeRetorno(p)]]
    /\ tx' = [tx EXCEPT ![p] = SIN_TX]
    /\ pc' = [pc EXCEPT ![p] = "fin"]
    /\ UNCHANGED <<resultados, UMBRALES_APROBACION, secuencia, registro, historial, reloj, restantes,
                   llamada, solicitud, error, evaluacion>>

\* await client.query(...) of a statement of the transaction (BEGIN, UPDATE, INSERT,
\* COMMIT) rejects for a fault of the server or the connection: catch (error) sends
\* ROLLBACK.  What the server did with the statement is not known to the client:
\* nothing; or, the answer being lost, a COMMIT that was carried out (the transaction
\* is durable and the ROLLBACK that follows finds none open); or an INSERT into
\* solicitudes_compra that took a value of the sequence before it was rejected
FallaEnTx(p) ==
    /\ pc[p] \in {"begin", "update", "insert", "crear_solicitud", "crear_items", "commit"}
    /\ error' = [error EXCEPT ![p] = [tipo |-> "Internal", valor |-> SIN_VALOR]]
    /\ pc' = [pc EXCEPT ![p] = "rollback"]
    /\ \/ UNCHANGED <<dbvars, tx, secuencia>>
       \/ /\ pc[p] = "commit"
          /\ solicitudes_compra' = TablaTrasCommit(tx[p])
          /\ aprobaciones_compra' = LibroTrasCommit(tx[p])
          /\ solicitud_compra_items' = ItemsTrasCommit(tx[p])
          /\ tx' = [tx EXCEPT ![p] = SIN_TX]
          /\ UNCHANGED secuencia
       \/ /\ pc[p] = "crear_solicitud"
          /\ secuencia' = secuencia + 1
          /\ UNCHANGED <<dbvars, tx>>
    /\ UNCHANGED <<resultados, UMBRALES_APROBACION, registro, historial, reloj,
                   restantes, llamada, solicitud, resultado, evaluacion>>

\* variant: nothing is undone
SinRevertir(t) == t

\* what ROLLBACK leaves of the uncommitted transaction t
Revertida(t) == SIN_TX

\* await client.query('ROLLBACK') answers; throw error; finally client.release()
\* (a rejected ROLLBACK throws its own error instead; the server drops the
\* transaction together with the broken connection).  After a COMMIT that was
\* carried out with its answer lost there is no transaction left to undo
Rollback(p) ==
    /\ pc[p] = "rollback"
    /\ LET t == Revertida(tx[p])
       IN  /\ solicitudes_compra' = TablaTrasCommit(t)
           /\ aprobaciones_compra' = LibroTrasCommit(t)
           /\ solicitud_compra_items' = ItemsTrasCommit(t)
    /\ tx' = [tx EXCEPT ![p] = SIN_TX]
    /\ \E e \in {error[p], [tipo |-> "Internal", valor |-> SIN_VALOR]} :
          resultado' = [resultado EXCEPT ![p] = e]
    /\ error' = [error EXCEPT ![p] = SIN_ERROR]
    /\ pc' = [pc EXCEPT ![p] = "fin"]
    /\ UNCHANGED <<resultados, UMBRALES_APROBACION, secuencia, registro, historial, reloj, restantes,
                   llamada, solicitud, evaluacion>>

\* pool.query of the read or pool.connect() rejects: nothing was acquired
FallaFueraDeTx(p) ==
    /\ pc[p] \in {"leer", "connect"}
    /\ resultado' = [resultado EXCEPT ![p] = [tipo |-> "Internal", valor |-> SIN_VALOR]]
    /\ pc' = [pc EXCEPT ![p] = "fin"]
    /\ UNCHANGED <<resultados, UMBRALES_APROBACION, secuencia, registro, historial, dbvars, reloj,
                   restantes, llamada, solicitud, tx,
                   error, evaluacion>>

\* the steps of enviarSolicitud and procesarAprobacion once called
\* datos.items.reduce((acc, it) => acc + (it.cantidad * it.precio_unitario), 0)
RECURSIVE montoTotal(_)
montoTotal(items) ==
    IF items = <<>> THEN 0
    ELSE montoTotal(SubSeq(items, 1, Len(items) - 1))
         + items[Len(items)].cantidad * items[Len(items)].precio_unitario

\* POST / -> service.crearSolicitud(req.body, req.user.sub): montoTotal is computed
\* and withTransaction asks the pool for a client
LlamarCrear(p) ==
    /\ ~EnCurso(p)
    /\ restantes > 0
    /\ \E c \in CREACIONES_PEDIDAS :
          llamada' = [llamada EXCEPT ![p] =
              [SIN_LLAMADA EXCEPT !.fn = "crearSolicitud", !.usuarioId = c.sub,
                                  !.datos = c.datos]]
    /\ restantes' = restantes - 1
    /\ pc' = [pc EXCEPT ![p] = "connect"]
    /\ solicitud' = [solicitud EXCEPT ![p] = SIN_FILA]
    /\ resultado' = [resultado EXCEPT ![p] = SIN_RESULTADO]
    /\ UNCHANGED <<resultados, UMBRALES_APROBACION, secuencia, registro, historial, dbvars, reloj, tx,
                   error, evaluacion>>

\* await repo.crearSolicitud(client, { ...datos, solicitanteId, montoTotal }) answers:
\* the row got the next value of the sequence (which no ROLLBACK gives back); the
\* INSERT of the items is sent
InsertarSolicitud(p) ==
    /\ pc[p] = "crear_solicitud"
    /\ secuencia' = secuencia + 1
    /\ tx' = [tx EXCEPT ![p] =
          crearSolicitud(tx[p], secuencia + 1,
                         [urgente |-> llamada[p].datos.urgente,
                          solicitanteId |-> llamada[p].usuarioId,
                          montoTotal |-> montoTotal(llamada[p].datos.items)])]
    /\ pc' = [pc EXCEPT ![p] = "crear_items"]
    /\ UNCHANGED <<resultados, UMBRALES_APROBACION, registro, historial, dbvars, reloj, restantes,
                   llamada, solicitud, error, resultado, evaluacion>>

\* await repo.crearItemsSolicitud(client, solicitud.id, datos.items) answers: with the
\* rows, after which the callback returns and COMMIT is sent, or with the error of
\* the rejected statement, which the catch of withTransaction answers with ROLLBACK
InsertarItems(p) ==
    /\ pc[p] = "crear_items"
    /\ IF InsertAdmitido(COLUMNAS_DE_ITEMS)
       THEN /\ tx' = [tx EXCEPT ![p] =
                  crearItemsSolicitud(tx[p], CHOOSE id \in DOMAIN tx[p].filas : TRUE,
                                      llamada[p].datos.items)]
            /\ pc' = [pc EXCEPT ![p] = "commit"]
            /\ UNCHANGED error
       ELSE /\ error' = [error EXCEPT ![p] =
                  [tipo |-> "Internal", valor |-> [codigo |-> "428C9"]]]
            /\ pc' = [pc EXCEPT ![p] = "rollback"]
            /\ UNCHANGED tx
    /\ UNCHANGED <<resultados, UMBRALES_APROBACION, secuencia, registro, historial, dbvars, reloj,
                   restantes, llamada, solicitud, resultado, evaluacion>>

PasoDeServicio(p) ==
    \/ Leer(p)
    \/ Conectar(p)
    \/ Begin(p)
    \/ Update(p)
    \/ Insert(p)
    \/ Commit(p)
    \/ FallaEnTx(p)
    \/ Rollback(p)
    \/ FallaFueraDeTx(p)

Paso(p) == LlamarEnviar(p) \/ LlamarAprobacion(p) \/ PasoDeServicio(p)

Next == \E p \in Procs : Paso(p)

Spec == Init /\ [][Next]_vars

SpecFila == InitFila /\ [][Next]_vars

----------------------------------------------------------------------------
(* One worker serving one call at a time *)

UnProceso == {"w1"}

NextSecuencial == \E p \in UnProceso : Paso(p)

SpecSecuencial == InitSecuencial /\ [][NextSecuencial]_vars

\* The worker also serves POST /.
NextCrear ==
    \E p \in UnProceso :
        LlamarCrear(p) \/ InsertarSolicitud(p) \/ InsertarItems(p) \/ Paso(p)

SpecCrear == InitSecuencial /\ [][NextCrear]_vars

\* solicitudes_compra after the COMMITs of the workers in hechos: their transactions
\* hold the locks of the rows they wrote, so no two of them wrote the same row
TablaTrasCommits(hechos) ==
    [id \in DOMAIN solicitudes_compra \cup UNION {DOMAIN tx[p].filas : p \in hechos} |->
        IF \E p \in hechos : id \in DOMAIN TablaTrasCommit(tx[p])
                               /\ ( id \notin DOMAIN solicitudes_compra
                                    \/ TablaTrasCommit(tx[p])[id] # solicitudes_compra[id] )
        THEN TablaTrasCommit(tx[CHOOSE p \in hechos :
                                   /\ id \in DOMAIN TablaTrasCommit(tx[p])
                                   /\ ( id \notin DOMAIN solicitudes_compra
                                        \/ TablaTrasCommit(tx[p])[id]
                                              # solicitudes_compra[id] )])[id]
        ELSE solicitudes_compra[id]]

\* aprobaciones_compra and solicitud_compra_items after the same COMMITs
LibroTrasCommits(hechos) == aprobaciones_compra \cup UNION {tx[p].inserts : p \in hechos}
ItemsTrasCommits(hechos) == solicitud_compra_items \cup UNION {tx[p].items : p \in hechos}

\* the process ends and is started again with the thresholds the environment holds
\* then.  It ends whatever it is serving: process.exit(1) of pool.on('error'), of
\* unhandledRejection and uncaughtException, and of shutdown(signal) once its 10 s
\* are over (server.close waits for the open requests only until then).  A call in
\* flight is lost: it never returns and no response is sent; the server rolls its
\* open transaction back when the connection closes, unless the COMMIT already
\* sent was carried out before: each COMMIT sent is carried out or not by itself.
\* So is each INSERT INTO solicitudes_compra already sent: its row goes with the
\* transaction, the value it took from the sequence of id SERIAL does not come back.
Reiniciar ==
    /\ UMBRALES_APROBACION' \in UMBRALES_DE_ENTORNO
    /\ \/ UMBRALES_APROBACION' # UMBRALES_APROBACION
       \/ \E p \in Procs : EnCurso(p)
    /\ pc' = [p \in Procs |-> IF EnCurso(p) THEN "perdida" ELSE pc[p]]
    /\ tx' = [p \in Procs |-> IF EnCurso(p) THEN SIN_TX ELSE tx[p]]
    /\ error' = [p \in Procs |-> IF EnCurso(p) THEN SIN_ERROR ELSE error[p]]
    /\ \E hechos \in SUBSET {p \in Procs : pc[p] = "commit"} :
          /\ solicitudes_compra' = TablaTrasCommits(hechos)
          /\ aprobaciones_compra' = LibroTrasCommits(hechos)
          /\ solicitud_compra_items' = ItemsTrasCommits(hechos)
    /\ \E insertados \in SUBSET {p \in Procs : pc[p] = "crear_solicitud"} :
          secuencia' = secuencia + Cardinality(insertados)
    /\ UNCHANGED <<resultados, registro, reloj, restantes, llamada, solicitud,
                   resultado, historial, evaluacion>>

\* The worker serves POST / too, so a restart can find any statement in flight.
NextReinicio == NextCrear \/ Reiniciar

SpecReinicio == InitSecuencial /\ [][NextReinicio]_vars

----------------------------------------------------------------------------
(* PATCH /:id/aprobacion through validate(accionAprobacionSchema) and ctrl.aprobar *)

\* validate: if (error) return next(new ValidationError(...)); req.body = value; next()
\* ctrl.aprobar: service.procesarAprobacion({solicitudId: +req.params.id,
\*   accion: req.body.accion, comentario: req.body.comentario, usuarioId, rol})
PedirAprobacion(p) ==
    /\ ~EnCurso(p)
    /\ restantes > 0
    /\ \E c \in CUERPOS_PEDIDOS :
          LET v == accionAprobacionSchema(c.body)
          IN  IF v.error
              THEN /\ llamada' = [llamada EXCEPT ![p] =
                         [fn |-> "validate", solicitudId |-> c.solicitudId,
                          usuarioId |-> c.usuario.sub, rol |-> c.usuario.rol,
                          accion |-> NULL, comentario |-> UNDEFINED, cuerpo |-> c.body]]
                   /\ pc' = [pc EXCEPT ![p] = "fin"]
                   /\ resultado' = [resultado EXCEPT ![p] =
                         [tipo |-> "Validation", valor |-> SIN_VALOR]]
              ELSE /\ llamada' = [llamada EXCEPT ![p] =
                         [fn |-> "procesarAprobacion", solicitudId |-> c.solicitudId,
                          usuarioId |-> c.usuario.sub, rol |-> c.usuario.rol,
                          accion |-> v.value.accion, comentario |-> v.value.comentario,
                          cuerpo |-> c.body]]
                   /\ pc' = [pc EXCEPT ![p] = "leer"]
                   /\ resultado' = [resultado EXCEPT ![p] = SIN_RESULTADO]
    /\ restantes' = restantes - 1
    /\ solicitud' = [solicitud EXCEPT ![p] = SIN_FILA]
    /\ UNCHANGED <<resultados, UMBRALES_APROBACION, secuencia, registro, historial, dbvars, reloj,
                   tx, error, evaluacion>>

\* one worker serves the requests to the route, one at a time
NextRuta == \E p \in UnProceso : PedirAprobacion(p) \/ PasoDeServicio(p)

SpecRuta == InitFila /\ [][NextRuta]_vars

----------------------------------------------------------------------------
(* shared/database/pool.js: withTransaction(callback), every step of it.  The    *)
(* actions Conectar to Rollback above follow it for the callbacks of the service *)
(* with the release folded into the last step; here the callback is any          *)
(* function that awaits some queries on the client and then returns or throws,   *)
(* and registro keeps what was asked of the pool and of the client, in order.    *)

MaxConsultas == 2      \* queries a callback awaits on the client

\* the callbacks withTransaction is called with: the number of queries they await,
\* and whether they throw an error of their own after them instead of returning
CALLBACKS == [consultas : 0..MaxConsultas, lanza : BOOLEAN]

\* an entry of registro: what was asked and whether it was answered without error
Hecho(op) == [op |-> op, ok |-> TRUE]
Fallido(op) == [op |-> op, ok |-> FALSE]

\* the error a rejected pool.connect() or client.query(...) throws
ErrorDe(op) == [tipo |-> "Internal", valor |-> [origen |-> op]]

\* the error a callback throws of its own (an AppError such as ValidationError)
ERROR_DEL_CALLBACK == [tipo |-> "Validation", valor |-> [origen |-> "callback"]]

\* the value a callback returns
VALOR_DEL_CALLBACK == [origen |-> "callback"]

\* the number of queries of the callback answered so far
ConsultasHechas == Cardinality({i \in 1..Len(registro) : registro[i].op = "query"})

\* some caller invokes withTransaction(callback): pool.connect() is asked
LlamarWithTransaction(p) ==
    /\ ~EnCurso(p)
    /\ restantes > 0
    /\ \E cb \in CALLBACKS :
          llamada' = [llamada EXCEPT ![p] =
              [SIN_LLAMADA EXCEPT !.fn = "withTransaction", !.callback = cb]]
    /\ restantes' = restantes - 1
    /\ pc' = [pc EXCEPT ![p] = "wt_connect"]
    /\ registro' = <<>>
    /\ solicitud' = [solicitud EXCEPT ![p] = SIN_FILA]
    /\ resultado' = [resultado EXCEPT ![p] = SIN_RESULTADO]
    /\ UNCHANGED <<resultados, UMBRALES_APROBACION, secuencia, historial, dbvars, reloj, tx, error,
                   evaluacion>>

\* const client = await pool.connect(): a client is handed out and BEGIN is sent on
\* it, or connect rejects and withTransaction rejects with that error, outside the try
WtConnect(p) ==
    /\ pc[p] = "wt_connect"
    /\ \/ /\ registro' = Append(registro, Hecho("connect"))
          /\ pc' = [pc EXCEPT ![p] = "wt_begin"]
          /\ UNCHANGED resultado
       \/ /\ registro' = Append(registro, Fallido("connect"))
          /\ pc' = [pc EXCEPT ![p] = "fin"]
          /\ resultado' = [resultado EXCEPT ![p] = ErrorDe("connect")]
    /\ UNCHANGED <<resultados, UMBRALES_APROBACION, secuencia, historial, dbvars, reloj, restantes,
                   llamada, solicitud, tx, error, evaluacion>>

\* where withTransaction goes once the callback has no query left to await: the
\* callback throws (catch: ROLLBACK is sent) or returns (COMMIT is sent)
TrasElCallback(p) ==
    IF llamada[p].callback.lanza
    THEN [pc |-> "wt_rollback", error |-> ERROR_DEL_CALLBACK]
    ELSE [pc |-> "wt_commit", error |-> SIN_ERROR]

\* await client.query('BEGIN') answers: the callback runs up to its first await, or
\* to its end when it awaits nothing; a rejected BEGIN goes to the catch
WtBegin(p) ==
    /\ pc[p] = "wt_begin"
    /\ \/ /\ registro' = Append(registro, Hecho("BEGIN"))
          /\ IF llamada[p].callback.consultas > 0
             THEN /\ pc' = [pc EXCEPT ![p] = "wt_callback"]
                  /\ UNCHANGED error
             ELSE /\ pc' = [pc EXCEPT ![p] = TrasElCallback(p).pc]
                  /\ error' = [error EXCEPT ![p] = TrasElCallback(p).error]
       \/ /\ registro' = Append(registro, Fallido("BEGIN"))
          /\ pc' = [pc EXCEPT ![p] = "wt_rollback"]
          /\ error' = [error EXCEPT ![p] = ErrorDe("BEGIN")]
    /\ UNCHANGED <<resultados, UMBRALES_APROBACION, secuencia, historial, dbvars, reloj, restantes,
                   llamada, solicitud, tx, resultado, evaluacion>>

\* a query of the callback answers: the callback goes on to its next await or to its
\* end; a rejected query makes the callback reject, which goes to the catch
WtCallback(p) ==
    /\ pc[p] = "wt_callback"
    /\ \/ /\ registro' = Append(registro, Hecho("query"))
          /\ IF ConsultasHechas + 1 < llamada[p].callback.consultas
             THEN /\ UNCHANGED <<pc, error>>
             ELSE /\ pc' = [pc EXCEPT ![p] = TrasElCallback(p).pc]
                  /\ error' = [error EXCEPT ![p] = TrasElCallback(p).error]
       \/ /\ registro' = Append(registro, Fallido("query"))
          /\ pc' = [pc EXCEPT ![p] = "wt_rollback"]
          /\ error' = [error EXCEPT ![p] = ErrorDe("query")]
    /\ UNCHANGED <<resultados, UMBRALES_APROBACION, secuencia, historial, dbvars, reloj, restantes,
                   llamada, solicitud, tx, resultado, evaluacion>>

\* variant: the client goes back to the pool only after an answered COMMIT or ROLLBACK
RegistroAlSalirSinFinally(reg, op, ok) ==
    IF ok THEN reg \o <<Hecho(op), Hecho("release")>> ELSE Append(reg, Fallido(op))

\* registro when withTransaction is left after its last statement op (COMMIT answered,
\* ROLLBACK answered or rejected): finally { client.release() }
RegistroAlSalir(reg, op, ok) ==
    reg \o <<IF ok THEN Hecho(op) ELSE Fallido(op), Hecho("release")>>

\* await client.query('COMMIT') answers: return result, the client is released on
\* the way out; a rejected COMMIT goes to the catch
WtCommit(p) ==
    /\ pc[p] = "wt_commit"
    /\ \/ /\ registro' = RegistroAlSalir(registro, "COMMIT", TRUE)
          /\ pc' = [pc EXCEPT ![p] = "fin"]
          /\ resultado' = [resultado EXCEPT ![p] =
                [tipo |-> "ok", valor |-> VALOR_DEL_CALLBACK]]
          /\ UNCHANGED error
       \/ /\ registro' = Append(registro, Fallido("COMMIT"))
          /\ pc' = [pc EXCEPT ![p] = "wt_rollback"]
          /\ error' = [error EXCEPT ![p] = ErrorDe("COMMIT")]
          /\ UNCHANGED resultado
    /\ UNCHANGED <<resultados, UMBRALES_APROBACION, secuencia, historial, dbvars, reloj, restantes,
                   llamada, solicitud, tx, evaluacion>>

\* await client.query('ROLLBACK') answers: throw error, the caught one; a rejected
\* ROLLBACK leaves the catch with its own error; the client is released either way
WtRollback(p) ==
    /\ pc[p] = "wt_rollback"
    /\ \/ /\ registro' = RegistroAlSalir(registro, "ROLLBACK", TRUE)
          /\ resultado' = [resultado EXCEPT ![p] = error[p]]
       \/ /\ registro' = RegistroAlSalir(registro, "ROLLBACK", FALSE)
          /\ resultado' = [resultado EXCEPT ![p] = ErrorDe("ROLLBACK")]
    /\ error' = [error EXCEPT ![p] = SIN_ERROR]
    /\ pc' = [pc EXCEPT ![p] = "fin"]
    /\ UNCHANGED <<resultados, UMBRALES_APROBACION, secuencia, historial, dbvars, reloj, restantes,
                   llamada, solicitud, tx, evaluacion>>

NextTransaccion ==
    \E p \in UnProceso :
        \/ LlamarWithTransaction(p)
        \/ WtConnect(p) \/ WtBegin(p) \/ WtCallback(p) \/ WtCommit(p) \/ WtRollback(p)

SpecTransaccion == InitSecuencial /\ [][NextTransaccion]_vars

----------------------------------------------------------------------------
(* GET /:id -> service.obtenerSolicitudConHistorial(+req.params.id) *)

\* Promise.all([repo.obtenerSolicitudCompleta(id), repo.obtenerHistorialAprobaciones(id)])
\* sends both queries
LlamarObtener(p) ==
    /\ ~EnCurso(p)
    /\ restantes > 0
    /\ \E id \in CONSULTAS_PEDIDAS :
          llamada' = [llamada EXCEPT ![p] =
              [SIN_LLAMADA EXCEPT !.fn = "obtenerSolicitudConHistorial", !.solicitudId = id]]
    /\ restantes' = restantes - 1
    /\ pc' = [pc EXCEPT ![p] = "consultas"]
    /\ solicitud' = [solicitud EXCEPT ![p] = SIN_FILA]
    /\ historial' = [historial EXCEPT ![p] = <<>>]
    /\ resultado' = [resultado EXCEPT ![p] = SIN_RESULTADO]
    /\ UNCHANGED <<resultados, UMBRALES_APROBACION, secuencia, registro, dbvars, reloj, tx, error,
                   evaluacion>>

\* variant: the history is returned without the request having been looked at
RespuestaSinNotFound(sol, h) ==
    [tipo |-> "ok", valor |-> [solicitud |-> sol, historial_aprobaciones |-> h]]

\* if (!solicitud) throw new NotFoundError(...);
\* return { ...solicitud, historial_aprobaciones: historial }
RespuestaDeObtener(sol, h) ==
    IF sol = SIN_FILA
    THEN [tipo |-> "NotFound", valor |-> SIN_VALOR]
    ELSE [tipo |-> "ok", valor |-> [solicitud |-> sol, historial_aprobaciones |-> h]]

\* the query of obtenerSolicitudCompleta answers; when the other query has answered
\* too, Promise.all resolves and the function returns or throws
RespondeSolicitud(p) ==
    /\ pc[p] \in {"consultas", "falta_solicitud"}
    /\ LET sol == obtenerSolicitudCompleta(llamada[p].solicitudId)
       IN  /\ solicitud' = [solicitud EXCEPT ![p] = sol]
           /\ IF pc[p] = "consultas"
              THEN /\ pc' = [pc EXCEPT ![p] = "falta_historial"]
                   /\ UNCHANGED resultado
              ELSE /\ pc' = [pc EXCEPT ![p] = "fin"]
                   /\ resultado' = [resultado EXCEPT ![p] =
                         RespuestaDeObtener(sol, historial[p])]
    /\ UNCHANGED <<resultados, UMBRALES_APROBACION, secuencia, registro, historial, dbvars, reloj,
                   restantes, llamada, tx,
                   error, evaluacion>>

\* the query of obtenerHistorialAprobaciones answers
RespondeHistorial(p) ==
    /\ pc[p] \in {"consultas", "falta_historial"}
    /\ LET h == obtenerHistorialAprobaciones(llamada[p].solicitudId)
       IN  /\ historial' = [historial EXCEPT ![p] = h]
           /\ IF pc[p] = "consultas"
              THEN /\ pc' = [pc EXCEPT ![p] = "falta_solicitud"]
                   /\ UNCHANGED resultado
              ELSE /\ pc' = [pc EXCEPT ![p] = "fin"]
                   /\ resultado' = [resultado EXCEPT ![p] =
                         RespuestaDeObtener(solicitud[p], h)]
    /\ UNCHANGED <<resultados, UMBRALES_APROBACION, secuencia, registro, dbvars, reloj, restantes,
                   llamada, solicitud, tx,
                   error, evaluacion>>

\* one of the two queries is rejected: Promise.all rejects
FallaDeConsulta(p) ==
    /\ pc[p] \in {"consultas", "falta_solicitud", "falta_historial"}
    /\ resultado' = [resultado EXCEPT ![p] = [tipo |-> "Internal", valor |-> SIN_VALOR]]
    /\ pc' = [pc EXCEPT ![p] = "fin"]
    /\ UNCHANGED <<resultados, UMBRALES_APROBACION, secuencia, registro, historial, dbvars, reloj,
                   restantes, llamada,
                   solicitud, tx, error, evaluacion>>

PasoDeLectura(p) ==
    LlamarObtener(p) \/ RespondeSolicitud(p) \/ RespondeHistorial(p) \/ FallaDeConsulta(p)

\* one worker serves the writing calls while the other serves the reading ones
NextLectura ==
    \/ \E p \in UnProceso : Paso(p)
    \/ \E p \in Procs \ UnProceso : PasoDeLectura(p)

SpecLectura == Init /\ [][NextLectura]_vars

----------------------------------------------------------------------------
(* GET / -> service.obtenerFlujoPendiente(req.user.rol) *)

MaxFilas == 2          \* rows of solicitudes_compra when the pending list is asked for

\* Object.values(ESTADOS_COMPRA), in the order of the keys of the object
VALORES_DE_ESTADOS ==
    <<BORRADOR, PENDIENTE_JEFE, PENDIENTE_GERENCIA, PENDIENTE_TESORERIA,
      APROBADA, RECHAZADA, ANULADA, EN_PROCESO, COMPLETADA>>

\* the characters of the values of ESTADOS_COMPRA, in the same order
LETRAS_DE_ESTADOS ==
    <<<<"b", "o", "r", "r", "a", "d", "o", "r">>,
     <<"p", "e", "n", "d", "i", "e", "n", "t", "e", "_", "j", "e", "f", "e">>,
     <<"p", "e", "n", "d", "i", "e", "n", "t", "e", "_", "g", "e", "r", "e", "n", "c", "i", "a">>,
     <<"p", "e", "n", "d", "i", "e", "n", "t", "e", "_", "t", "e", "s", "o", "r", "e", "r", "i", "a">>,
     <<"a", "p", "r", "o", "b", "a", "d", "a">>,
     <<"r", "e", "c", "h", "a", "z", "a", "d", "a">>,
     <<"a", "n", "u", "l", "a", "d", "a">>,
     <<"e", "n", "_", "p", "r", "o", "c", "e", "s", "o">>,
     <<"c", "o", "m", "p", "l", "e", "t", "a", "d", "a">>>>

\* String.prototype.startsWith on the characters of two strings
startsWith(texto, prefijo) ==
    Len(texto) >= Len(prefijo) /\ SubSeq(texto, 1, Len(prefijo)) = prefijo

\* .filter(e => e.startsWith('pendiente')) over the first n values
RECURSIVE PendientesHasta(_)
PendientesHasta(n) ==
    IF n = 0 THEN <<>>
    ELSE IF startsWith(LETRAS_DE_ESTADOS[n],
                       <<"p", "e", "n", "d", "i", "e", "n", "t", "e">>)
    THEN Append(PendientesHasta(n - 1), VALORES_DE_ESTADOS[n])
    ELSE PendientesHasta(n - 1)

\* Object.values(ESTADOS_COMPRA).filter(e => e.startsWith('pendiente'))
ESTADOS_PENDIENTES == PendientesHasta(Len(VALORES_DE_ESTADOS))

\* estadosPorRol is a plain object: estadosPorRol[rol] also finds what it inherits
\* from Object.prototype, under these names
HEREDADAS ==
    {"constructor", "__proto__", "hasOwnProperty", "isPrototypeOf", "propertyIsEnumerable",
     "toString", "toLocaleString", "valueOf", "__defineGetter__", "__defineSetter__",
     "__lookupGetter__", "__lookupSetter__"}

\* .length of the inherited value: the number of parameters of the function, and
\* undefined (-1) for Object.prototype itself
lengthHeredada(nombre) ==
    CASE nombre \in {"toString", "toLocaleString", "valueOf"}       -> 0
      [] nombre \in {"__defineGetter__", "__defineSetter__"}        -> 2
      [] nombre = "__proto__"                                       -> -1
      [] OTHER                                                      -> 1

\* a value read from estadosPorRol: an array with its elements, or an inherited value,
\* which has no map
Arreglo(valores) == [esArreglo |-> TRUE, length |-> Len(valores), valores |-> valores]
Heredada(nombre) == [esArreglo |-> FALSE, length |-> lengthHeredada(nombre), valores |-> <<>>]

\* variant: the gerente is shown only the requests waiting for gerencia
estadosPorRolSinJefeParaGerente(rol) ==
    IF rol = "jefe_area" THEN Arreglo(<<PENDIENTE_JEFE>>)
    ELSE IF rol = "gerente" THEN Arreglo(<<PENDIENTE_GERENCIA>>)
    ELSE IF rol = "tesorero" THEN Arreglo(<<PENDIENTE_TESORERIA>>)
    ELSE IF rol = "admin" THEN Arreglo(ESTADOS_PENDIENTES)
    ELSE IF rol \in HEREDADAS THEN Heredada(rol)
    ELSE Arreglo(<<>>)

\* estadosPorRol[rol] || []  (an inherited function or object is truthy)
estadosPorRol(rol) ==
    IF rol = "jefe_area" THEN Arreglo(<<PENDIENTE_JEFE>>)
    ELSE IF rol = "gerente" THEN Arreglo(<<PENDIENTE_JEFE, PENDIENTE_GERENCIA>>)
    ELSE IF rol = "tesorero" THEN Arreglo(<<PENDIENTE_TESORERIA>>)
    ELSE IF rol = "admin" THEN Arreglo(ESTADOS_PENDIENTES)
    ELSE IF rol \in HEREDADAS THEN Heredada(rol)
    ELSE Arreglo(<<>>)

\* SELECT sc.id, sc.estado, sc.urgente, sc.monto_total, sc.created_at,
\* u.nombre AS solicitante  of row id
FilaListada(id) ==
    [id |-> id, estado |-> solicitudes_compra[id].estado,
     urgente |-> solicitudes_compra[id].urgente,
     monto_total |-> solicitudes_compra[id].monto_total,
     created_at |-> solicitudes_compra[id].created_at,
     solicitante |-> usuarios[solicitudes_compra[id].solicitante_id].nombre]

\* FROM solicitudes_compra sc JOIN usuarios u ON sc.solicitante_id = u.id
\* WHERE sc.deleted_at IS NULL AND sc.estado = $1 : the ids of the rows selected
IdsListados(estado) ==
    {id \in DOMAIN solicitudes_compra :
        /\ solicitudes_compra[id].deleted_at = NULL
        /\ solicitudes_compra[id].estado = estado
        /\ solicitudes_compra[id].solicitante_id \in DOMAIN usuarios}

\* ORDER BY sc.urgente DESC, sc.created_at DESC : row a may come before row b
AntesEnElOrden(a, b) ==
    \/ a.urgente /\ ~b.urgente
    \/ a.urgente = b.urgente /\ a.created_at >= b.created_at

\* the orders in which the statement may return the rows ids: every arrangement that
\* ORDER BY admits (rows that tie on both keys come in either order)
Ordenadas(ids) ==
    {orden \in [1..Cardinality(ids) -> ids] :
        /\ \A i, j \in 1..Cardinality(ids) : i # j => orden[i] # orden[j]
        /\ \A i, j \in 1..Cardinality(ids) :
              i < j => AntesEnElOrden(FilaListada(orden[i]), FilaListada(orden[j]))}

\* LIMIT $limite OFFSET (pagina - 1) * limite
Pagina(filas, pagina, limite) ==
    LET offset == (pagina - 1) * limite
        ultima == IF Len(filas) < offset + limite THEN Len(filas) ELSE offset + limite
    IN  SubSeq(filas, offset + 1, ultima)

\* repo.listarSolicitudes({ estado, pagina, limite }).data : the arrays the data query
\* may answer with
listarSolicitudes(estado, pagina, limite) ==
    {Pagina([i \in 1..Len(orden) |-> FilaListada(orden[i])], pagina, limite) :
        orden \in Ordenadas(IdsListados(estado))}

\* a boolean in arithmetic: true is 1, false is 0
Numero(b) == IF b THEN 1 ELSE 0

\* variant: the comparator looks at created_at only
compararSoloPorFecha(a, b) == b.created_at - a.created_at

\* (a, b) => b.urgente - a.urgente || new Date(b.created_at) - new Date(a.created_at)
compararPendientes(a, b) ==
    IF Numero(b.urgente) - Numero(a.urgente) # 0
    THEN Numero(b.urgente) - Numero(a.urgente)
    ELSE b.created_at - a.created_at

\* x put into the sorted array arr behind every element that must not follow it
InsertarOrdenado(arr, x) ==
    LET detras == {i \in 1..Len(arr) : compararPendientes(arr[i], x) > 0}
        k == IF detras = {} THEN Len(arr) + 1
             ELSE CHOOSE i \in detras : \A j \in detras : i <= j
    IN  SubSeq(arr, 1, k - 1) \o <<x>> \o SubSeq(arr, k, Len(arr))

\* data.sort(comparator): Array.prototype.sort, which is stable
RECURSIVE sort(_)
sort(data) ==
    IF data = <<>> THEN <<>>
    ELSE InsertarOrdenado(sort(SubSeq(data, 1, Len(data) - 1)), data[Len(data)])

\* resultados.flatMap(r => r.data)
RECURSIVE flatMap(_)
flatMap(arr) ==
    IF arr = <<>> THEN <<>>
    ELSE arr[1] \o flatMap(SubSeq(arr, 2, Len(arr)))

LIMITE_PENDIENTES == 100

\* SELECT COUNT(*) FROM solicitudes_compra sc WHERE sc.deleted_at IS NULL AND
\* sc.estado = $1  (no JOIN)
contarSolicitudes(estado) ==
    Cardinality({id \in DOMAIN solicitudes_compra :
                    /\ solicitudes_compra[id].deleted_at = NULL
                    /\ solicitudes_compra[id].estado = estado})

\* an entry of Promise.all(estados.map(estado => repo.listarSolicitudes({ estado,
\* pagina: 1, limite: 100 }))): neither of the two queries of the stage is answered
SIN_RESPUESTA ==
    [dataRespondida |-> FALSE, data |-> <<>>, countRespondida |-> FALSE, total |-> 0]

\* const [data, count] = await Promise.all([...]) of listarSolicitudes is over
Resuelta(r) == r.dataRespondida /\ r.countRespondida

\* { data, total: data.length } for the answers r of the stages, r[i].data being the
\* field data of the i-th
RespuestaDePendientes(r) ==
    LET data == sort(flatMap([i \in 1..Len(r) |-> r[i].data]))
    IN  [tipo |-> "ok", valor |-> [data |-> data, total |-> Len(data)]]

\* the roles GET / is called with (req.user.rol, as the token has it): those of the
\* users, one no user has, none, and names that Object.prototype holds
ROLES_QUE_LISTAN == ROLES \cup {"auditor", NULL, "constructor", "__proto__", "toString"}

\* GET / : estados = estadosPorRol[rol] || []; with estados.length === 0
\* { data: [], total: 0 } is returned at once; otherwise estados.map(...) sends the two
\* queries of every stage, or throws TypeError when estados is no array, and the
\* call rejects with it
LlamarPendientes(p) ==
    /\ ~EnCurso(p)
    /\ \E rol \in ROLES_QUE_LISTAN :
          LET estados == estadosPorRol(rol)
          IN  /\ llamada' = [llamada EXCEPT ![p] =
                    [SIN_LLAMADA EXCEPT !.fn = "obtenerFlujoPendiente", !.rol = rol]]
              /\ IF estados.length = 0
                 THEN /\ pc' = [pc EXCEPT ![p] = "fin"]
                      /\ resultado' = [resultado EXCEPT ![p] =
                            [tipo |-> "ok", valor |-> [data |-> <<>>, total |-> 0]]]
                 ELSE IF ~estados.esArreglo
                 THEN /\ pc' = [pc EXCEPT ![p] = "fin"]
                      /\ resultado' = [resultado EXCEPT ![p] =
                            [tipo |-> "TypeError", valor |-> SIN_VALOR]]
                 ELSE /\ pc' = [pc EXCEPT ![p] = "listados"]
                      /\ resultado' = [resultado EXCEPT ![p] = SIN_RESULTADO]
              /\ resultados' = [resultados EXCEPT ![p] =
                    [i \in 1..Len(estados.valores) |-> SIN_RESPUESTA]]
    /\ solicitud' = [solicitud EXCEPT ![p] = SIN_FILA]
    /\ UNCHANGED <<UMBRALES_APROBACION, secuencia, registro, historial, dbvars, reloj,
                   restantes, tx, error, evaluacion>>

\* a query of the call of p was answered and the answers are now r: when both queries
\* of every stage are answered every listarSolicitudes has resolved and so has the
\* Promise.all over them: flatMap, sort, return; until then the call waits
TrasLaRespuesta(p, r) ==
    /\ resultados' = [resultados EXCEPT ![p] = r]
    /\ IF \A j \in 1..Len(r) : Resuelta(r[j])
       THEN /\ resultado' = [resultado EXCEPT ![p] = RespuestaDePendientes(r)]
            /\ pc' = [pc EXCEPT ![p] = "fin"]
       ELSE UNCHANGED <<pc, resultado>>
    /\ UNCHANGED <<UMBRALES_APROBACION, secuencia, registro, historial, dbvars, reloj,
                   restantes, llamada, solicitud, tx, error, evaluacion>>

\* the data query of one stage, a statement of its own sent through pool.query, is
\* answered from the table as it is now; the queries are answered in any order
RespondeData(p) ==
    /\ pc[p] = "listados"
    /\ \E i \in 1..Len(resultados[p]) :
          /\ ~resultados[p][i].dataRespondida
          /\ \E d \in listarSolicitudes(estadosPorRol(llamada[p].rol).valores[i], 1,
                                        LIMITE_PENDIENTES) :
                TrasLaRespuesta(p, [resultados[p] EXCEPT ![i].dataRespondida = TRUE,
                                                         ![i].data = d])

\* the COUNT query of one stage, another statement of its own, is answered from the
\* table as it is now (obtenerFlujoPendiente does not read total)
RespondeCount(p) ==
    /\ pc[p] = "listados"
    /\ \E i \in 1..Len(resultados[p]) :
          /\ ~resultados[p][i].countRespondida
          /\ TrasLaRespuesta(p,
                [resultados[p] EXCEPT
                    ![i].countRespondida = TRUE,
                    ![i].total = contarSolicitudes(
                                     estadosPorRol(llamada[p].rol).valores[i])])

\* one of the queries is rejected: Promise.all rejects
FallaDeListado(p) ==
    /\ pc[p] = "listados"
    /\ resultado' = [resultado EXCEPT ![p] = [tipo |-> "Internal", valor |-> SIN_VALOR]]
    /\ pc' = [pc EXCEPT ![p] = "fin"]
    /\ UNCHANGED <<resultados, UMBRALES_APROBACION, secuencia, registro, historial, dbvars, reloj,
                   restantes, llamada, solicitud, tx, error, evaluacion>>

\* the stages, urgency flags and creation times of the rows listed from
ESTADOS_LISTADOS == {PENDIENTE_JEFE, PENDIENTE_GERENCIA, PENDIENTE_TESORERIA, APROBADA}
FECHAS == {1, 2}

\* The database holds MaxFilas requests, each in one of ESTADOS_LISTADOS, urgent or
\* not, created at one of FECHAS, the ids given in the order of creation (the id is a
\* label here: no listing looks at it); nothing writes to it.
InitListado ==
    /\ UMBRALES_APROBACION = UmbralesPorDefecto
    /\ solicitudes_compra \in
          [1..MaxFilas ->
              {[FilaNueva(4000000, 1) EXCEPT !.estado = e, !.urgente = u,
                                            !.created_at = f] :
                  e \in ESTADOS_LISTADOS, u \in BOOLEAN, f \in FECHAS}]
    /\ \A i, j \in 1..MaxFilas :
          i < j => solicitudes_compra[i].created_at <= solicitudes_compra[j].created_at
    /\ solicitud_compra_items = UNION {ItemsDe(id, 4000000) : id \in 1..MaxFilas}
    /\ aprobaciones_compra = {}
    /\ secuencia = MaxFilas
    /\ restantes = 0
    /\ InitProcs

NextListado ==
    \E p \in UnProceso :
        LlamarPendientes(p) \/ RespondeData(p) \/ RespondeCount(p) \/ FallaDeListado(p)

SpecListado == InitListado /\ [][NextListado]_vars

\* The request is retired: some other session sets its soft-deletion marker, in a
\* transaction of its own (UPDATE solicitudes_compra SET deleted_at = NOW() WHERE
\* id = $1), which waits while a transaction holds the lock of the row
BorradoLogico(id) ==
    /\ id \in DOMAIN solicitudes_compra
    /\ solicitudes_compra[id].deleted_at = NULL
    /\ \A p \in Procs : ~(tx[p].update # SIN_UPDATE /\ tx[p].update.id = id)
    /\ solicitudes_compra' = [solicitudes_compra EXCEPT ![id].deleted_at = BORRADA]
    /\ UNCHANGED <<resultados, UMBRALES_APROBACION, secuencia, registro, historial,
                   aprobaciones_compra, solicitud_compra_items, reloj, restantes, pc,
                   llamada, solicitud, tx, error, resultado, evaluacion>>

\* One worker serves the writing and the reading calls while requests are retired.
NextBorrado ==
    \/ \E p \in UnProceso : Paso(p) \/ PasoDeLectura(p)
    \/ \E id \in DOMAIN solicitudes_compra : BorradoLogico(id)

SpecBorrado == InitSecuencial /\ [][NextBorrado]_vars

----------------------------------------------------------------------------
(* The pure functions of financiero.states.js, evaluated on their own *)

ROLES_PROBADOS == ROLES \cup {"auditor", NULL}

EvalCalcularFlujo ==
    /\ \E m \in 0..MaxMonto :
          evaluacion' = [SIN_EVALUACION EXCEPT
              !.fn = "calcularFlujoAprobacion", !.monto = m,
              !.flujo = calcularFlujoAprobacion(m)]
    /\ UNCHANGED <<resultados, UMBRALES_APROBACION, secuencia, registro, historial, dbvars, reloj,
                   restantes, pc, llamada, solicitud,
                   tx, error, resultado>>

EvalSiguienteEstado ==
    /\ \E m \in 0..MaxMonto, e \in ESTADOS_COMPRA :
          evaluacion' = [SIN_EVALUACION EXCEPT
              !.fn = "siguienteEstado", !.monto = m, !.estado = e,
              !.siguiente = siguienteEstado(e, m)]
    /\ UNCHANGED <<resultados, UMBRALES_APROBACION, secuencia, registro, historial, dbvars, reloj,
                   restantes, pc, llamada, solicitud,
                   tx, error, resultado>>

EvalPuedeAprobar ==
    /\ \E r \in ROLES_PROBADOS, e \in ESTADOS_COMPRA :
          evaluacion' = [SIN_EVALUACION EXCEPT
              !.fn = "puedeAprobar", !.rol = r, !.estado = e,
              !.puede = puedeAprobar(r, e)]
    /\ UNCHANGED <<resultados, UMBRALES_APROBACION, secuencia, registro, historial, dbvars, reloj,
                   restantes, pc, llamada, solicitud,
                   tx, error, resultado>>

NextEstados == EvalCalcularFlujo \/ EvalSiguienteEstado \/ EvalPuedeAprobar

SpecEstados == InitEstados /\ [][NextEstados]_vars

----------------------------------------------------------------------------
(* Properties *)

Terminada(p, fn) == pc[p] = "fin" /\ llamada[p].fn = fn

\* p ends its call in this step
Termina(p) == pc[p] # "fin" /\ pc'[p] = "fin"

\* the stored request and its ledger rows
Fila(id) == solicitudes_compra[id]

AprobacionesNuevas == aprobaciones_compra' \ aprobaciones_compra

(* C1: two concurrent approvals by authorized roles of the same request in
   pendiente_jefe (monto >= JEFE_AREA) end with exactly one success moving it to
   pendiente_gerencia and one Validation failure, and the ledger holds exactly one
   approval of level 1, not two. *)
C1_UnaSolaAprobacionGana ==
    \A p \in Procs : \A q \in Procs \ {p} :
        ( /\ Terminada(p, "procesarAprobacion") /\ Terminada(q, "procesarAprobacion")
          /\ llamada[p].accion = "aprobar" /\ llamada[q].accion = "aprobar"
          /\ llamada[p].solicitudId = llamada[q].solicitudId
          /\ solicitud[p].estado = PENDIENTE_JEFE /\ solicitud[q].estado = PENDIENTE_JEFE
          /\ solicitud[p].monto_total >= UMBRALES_APROBACION.JEFE_AREA
          /\ puedeAprobar(llamada[p].rol, PENDIENTE_JEFE)
          /\ puedeAprobar(llamada[q].rol, PENDIENTE_JEFE)
          /\ resultado[p].tipo # "Internal" /\ resultado[q].tipo # "Internal" )
        => /\ {resultado[p].tipo, resultado[q].tipo} = {"ok", "Validation"}
           /\ Cardinality({a \in FilasAprobaciones(llamada[p].solicitudId) :
                              a.accion = "aprobar" /\ a.nivel_aprobacion = 1}) = 1

CambioYEventoJuntos ==
    (solicitudes_compra' # solicitudes_compra \/ aprobaciones_compra' # aprobaciones_compra)
    => /\ DOMAIN solicitudes_compra' = DOMAIN solicitudes_compra
       /\ aprobaciones_compra \subseteq aprobaciones_compra'
       /\ Cardinality(AprobacionesNuevas) = 1
       /\ \E a \in AprobacionesNuevas :
             /\ a.solicitud_id \in DOMAIN solicitudes_compra
             /\ \A id \in DOMAIN solicitudes_compra \ {a.solicitud_id} :
                   solicitudes_compra'[id] = solicitudes_compra[id]
             /\ solicitudes_compra'[a.solicitud_id].estado
                   # solicitudes_compra[a.solicitud_id].estado
             /\ solicitudes_compra'[a.solicitud_id].estado = a.estado_resultante
             /\ solicitudes_compra'[a.solicitud_id].updated_by = a.aprobador_id

(* C2: every step that changes the stored requests or the ledger changes both: it
   changes the stage of exactly one request and adds exactly one ledger row, which
   carries the new stage and the user written to the request; no ledger row is
   added without a change of stage and none is ever removed. *)
C2_CambioDeEstadoConSuEvento == [][CambioYEventoJuntos]_vars

FalloSinEfecto ==
    /\ \A p \in Procs :
          (Termina(p) /\ resultado'[p].tipo # "ok") => UNCHANGED dbvars
    /\ (solicitudes_compra' # solicitudes_compra \/ aprobaciones_compra' # aprobaciones_compra)
       => \E p \in Procs : pc[p] = "commit" /\ Termina(p) /\ resultado'[p].tipo = "ok"

(* C3: a call that fails (NotFound, Validation, Forbidden or a storage error at any
   statement of the transaction) changes neither the stored request (stage,
   updated_by) nor the ledger: the step that ends a failing call leaves both tables
   as they are, and every step that changes a table is the COMMIT that ends a call
   successfully. *)
C3_FalloNoCambiaNada == [][FalloSinEfecto]_vars

\* the only call so far opened a transaction and failed with a storage error; the
\* request is still a draft with no ledger row
C3_Testigo ==
    /\ restantes = MaxOps - 1
    /\ reloj = 2
    /\ \E p \in Procs : pc[p] = "fin" /\ resultado[p].tipo = "Internal"
    /\ Fila(1).estado = BORRADOR /\ Fila(1).updated_by = 0
    /\ aprobaciones_compra = {}

(* C4: with JEFE_AREA <= GERENCIA, calcularFlujoAprobacion(monto) is
   [pendiente_jefe, aprobada] below JEFE_AREA, [pendiente_jefe, pendiente_gerencia,
   aprobada] from JEFE_AREA up to below GERENCIA, and [pendiente_jefe,
   pendiente_gerencia, pendiente_tesoreria, aprobada] from GERENCIA on. *)
C4_FlujoPorTramo ==
    ( /\ evaluacion.fn = "calcularFlujoAprobacion"
      /\ UMBRALES_APROBACION.JEFE_AREA <= UMBRALES_APROBACION.GERENCIA )
    => evaluacion.flujo =
          IF evaluacion.monto < UMBRALES_APROBACION.JEFE_AREA
          THEN <<PENDIENTE_JEFE, APROBADA>>
          ELSE IF evaluacion.monto < UMBRALES_APROBACION.GERENCIA
          THEN <<PENDIENTE_JEFE, PENDIENTE_GERENCIA, APROBADA>>
          ELSE <<PENDIENTE_JEFE, PENDIENTE_GERENCIA, PENDIENTE_TESORERIA, APROBADA>>

\* an amount equal to JEFE_AREA, below GERENCIA, was routed through gerencia
C4_Testigo ==
    /\ evaluacion.fn = "calcularFlujoAprobacion"
    /\ UMBRALES_APROBACION.JEFE_AREA < UMBRALES_APROBACION.GERENCIA
    /\ evaluacion.monto = UMBRALES_APROBACION.JEFE_AREA
    /\ evaluacion.flujo = <<PENDIENTE_JEFE, PENDIENTE_GERENCIA, APROBADA>>

\* the entry that follows e in the path f, NULL when e is its last entry or absent
SiguienteEnFlujo(f, e) ==
    IF \E i \in 1..(Len(f) - 1) : f[i] = e
    THEN f[(CHOOSE i \in 1..(Len(f) - 1) : f[i] = e) + 1]
    ELSE NULL

(* C5: siguienteEstado(s, monto) is the entry that follows s in
   calcularFlujoAprobacion(monto), and null when s is the last entry of that path
   or does not occur in it. *)
C5_SiguienteONull ==
    evaluacion.fn = "siguienteEstado"
    => evaluacion.siguiente =
          SiguienteEnFlujo(calcularFlujoAprobacion(evaluacion.monto), evaluacion.estado)

(* C6: puedeAprobar(rol, estado) is true exactly for pendiente_jefe with jefe_area,
   gerente or admin, pendiente_gerencia with gerente or admin, and
   pendiente_tesoreria with tesorero or admin. *)
C6_TablaDeRoles ==
    evaluacion.fn = "puedeAprobar"
    => ( evaluacion.puede
         <=> <<evaluacion.estado, evaluacion.rol>> \in
                {<<PENDIENTE_JEFE, "jefe_area">>, <<PENDIENTE_JEFE, "gerente">>,
                 <<PENDIENTE_JEFE, "admin">>,
                 <<PENDIENTE_GERENCIA, "gerente">>, <<PENDIENTE_GERENCIA, "admin">>,
                 <<PENDIENTE_TESORERIA, "tesorero">>, <<PENDIENTE_TESORERIA, "admin">>} )

\* gerente was allowed at pendiente_jefe
C6_Testigo ==
    /\ evaluacion.fn = "puedeAprobar"
    /\ evaluacion.estado = PENDIENTE_JEFE /\ evaluacion.rol = "gerente"
    /\ evaluacion.puede

\* p ends, in this step, a call of fn that read an existing request
TerminaHabiendoLeido(p, fn) ==
    Termina(p) /\ llamada[p].fn = fn /\ solicitud'[p] # SIN_FILA

\* the ledger row enviarSolicitud of p appends
EventoDeEnvio(p) ==
    [solicitud_id |-> llamada[p].solicitudId, nivel_aprobacion |-> 0, accion |-> "envio",
     comentario |-> COMENTARIO_ENVIO, aprobador_id |-> llamada[p].usuarioId,
     estado_resultante |-> PENDIENTE_JEFE, created_at |-> tx[p].inicio]

EnvioDeBorradorNoEsRechazado ==
    \A p \in Procs :
        ( /\ Terminada(p, "enviarSolicitud")
          /\ solicitud[p].estado = BORRADOR
          /\ solicitud[p].solicitante_id = llamada[p].usuarioId )
        => /\ resultado[p].tipo \in {"ok", "Internal"}
           /\ resultado[p].tipo = "ok"
              => /\ resultado[p].valor.estado = PENDIENTE_JEFE
                 /\ resultado[p].valor.updated_by = llamada[p].usuarioId

EfectoDelEnvio ==
    \A p \in Procs :
        (pc[p] = "commit" /\ Termina(p) /\ llamada[p].fn = "enviarSolicitud")
        => /\ resultado'[p].tipo = "ok"
           /\ solicitudes_compra'[llamada[p].solicitudId].estado = PENDIENTE_JEFE
           /\ solicitudes_compra'[llamada[p].solicitudId].updated_by = llamada[p].usuarioId
           /\ llamada[p].usuarioId = solicitudes_compra[llamada[p].solicitudId].solicitante_id
           /\ aprobaciones_compra \subseteq aprobaciones_compra'
           /\ AprobacionesNuevas = {EventoDeEnvio(p)}

(* C7: enviarSolicitud by the requester on a request read in borrador is rejected
   by no check (it ends ok unless the database rejects a statement); when it
   commits it sets estado to pendiente_jefe, stamps the caller as updated_by and
   appends exactly one ledger row with level 0, action envio, the requester as
   actor and pendiente_jefe as resulting stage, and it returns the updated row. *)
C7_EnvioDeBorrador == []EnvioDeBorradorNoEsRechazado /\ [][EfectoDelEnvio]_vars

\* the requester sent the draft: one envio row of level 0, the request in pendiente_jefe
C7_Testigo ==
    /\ \E p \in Procs :
          /\ Terminada(p, "enviarSolicitud")
          /\ solicitud[p].estado = BORRADOR
          /\ resultado[p].tipo = "ok"
    /\ Fila(1).estado = PENDIENTE_JEFE
    /\ Fila(1).updated_by = Fila(1).solicitante_id
    /\ \E a \in aprobaciones_compra :
          /\ aprobaciones_compra = {a}
          /\ a.nivel_aprobacion = 0 /\ a.accion = "envio"
          /\ a.aprobador_id = Fila(1).solicitante_id

(* C8, as claimed: enviarSolicitud on an existing request that is not in borrador
   fails with Validation, whoever calls. *)
C8_EnvioNoBorradorSiempreValidation ==
    \A p \in Procs :
        ( /\ Terminada(p, "enviarSolicitud")
          /\ solicitud[p] # SIN_FILA
          /\ solicitud[p].estado # BORRADOR )
        => resultado[p].tipo = "Validation"

EnvioNoBorradorRechazado ==
    \A p \in Procs :
        ( /\ Terminada(p, "enviarSolicitud")
          /\ solicitud[p] # SIN_FILA
          /\ solicitud[p].estado # BORRADOR )
        => resultado[p].tipo =
              IF solicitud[p].solicitante_id = llamada[p].usuarioId
              THEN "Validation" ELSE "Forbidden"

EnvioNoBorradorSinEfecto ==
    \A p \in Procs :
        (TerminaHabiendoLeido(p, "enviarSolicitud") /\ solicitud'[p].estado # BORRADOR)
        => UNCHANGED dbvars

(* C8, amended: enviarSolicitud by the requester on an existing request that is
   not in borrador fails with Validation and changes nothing; called by any other
   user it fails with Forbidden and changes nothing. *)
C8_EnvioNoBorrador == []EnvioNoBorradorRechazado /\ [][EnvioNoBorradorSinEfecto]_vars

\* the requester tried to send a request stored as anulada: Validation, nothing changed
C8_Testigo ==
    /\ \E p \in Procs :
          /\ Terminada(p, "enviarSolicitud")
          /\ solicitud[p].estado = ANULADA
          /\ solicitud[p].solicitante_id = llamada[p].usuarioId
          /\ resultado[p].tipo = "Validation"
    /\ Fila(1).estado = ANULADA
    /\ aprobaciones_compra = {}

EnvioAjenoRechazado ==
    \A p \in Procs :
        ( /\ Terminada(p, "enviarSolicitud")
          /\ solicitud[p] # SIN_FILA
          /\ solicitud[p].solicitante_id # llamada[p].usuarioId )
        => resultado[p].tipo = "Forbidden"

EnvioAjenoSinEfecto ==
    \A p \in Procs :
        ( /\ TerminaHabiendoLeido(p, "enviarSolicitud")
          /\ solicitud'[p].solicitante_id # llamada[p].usuarioId )
        => UNCHANGED dbvars

(* C9: enviarSolicitud on an existing request by a user who is not its requester
   fails with Forbidden in every stage of the request, and changes nothing. *)
C9_EnvioAjenoForbidden == []EnvioAjenoRechazado /\ [][EnvioAjenoSinEfecto]_vars

\* another user tried to send a request that is already aprobada: Forbidden
C9_Testigo ==
    /\ \E p \in Procs :
          /\ Terminada(p, "enviarSolicitud")
          /\ solicitud[p].estado = APROBADA
          /\ solicitud[p].solicitante_id # llamada[p].usuarioId
          /\ resultado[p].tipo = "Forbidden"
    /\ Fila(1).estado = APROBADA
    /\ aprobaciones_compra = {}

AprobacionFueraDeNivelRechazada ==
    \A p \in Procs :
        ( /\ Terminada(p, "procesarAprobacion")
          /\ solicitud[p] # SIN_FILA
          /\ solicitud[p].estado \notin
                {PENDIENTE_JEFE, PENDIENTE_GERENCIA, PENDIENTE_TESORERIA} )
        => resultado[p].tipo = "Validation"

AprobacionFueraDeNivelSinEfecto ==
    \A p \in Procs :
        ( /\ TerminaHabiendoLeido(p, "procesarAprobacion")
          /\ solicitud'[p].estado \notin
                {PENDIENTE_JEFE, PENDIENTE_GERENCIA, PENDIENTE_TESORERIA} )
        => UNCHANGED dbvars

(* C10: procesarAprobacion on an existing request whose stage is none of
   pendiente_jefe, pendiente_gerencia, pendiente_tesoreria fails with Validation
   for every role, admin included, and every action, and changes neither the stage
   nor the ledger. *)
C10_AprobacionFueraDeNivel ==
    []AprobacionFueraDeNivelRechazada /\ [][AprobacionFueraDeNivelSinEfecto]_vars

\* admin tried to approve a request stored as completada: Validation, nothing changed
C10_Testigo ==
    /\ \E p \in Procs :
          /\ Terminada(p, "procesarAprobacion")
          /\ llamada[p].rol = "admin"
          /\ solicitud[p].estado = COMPLETADA
          /\ resultado[p].tipo = "Validation"
    /\ Fila(1).estado = COMPLETADA
    /\ aprobaciones_compra = {}

\* the pairs (stage, role) of the authorization table
PARES_AUTORIZADOS ==
    {<<PENDIENTE_JEFE, "jefe_area">>, <<PENDIENTE_JEFE, "gerente">>,
     <<PENDIENTE_JEFE, "admin">>,
     <<PENDIENTE_GERENCIA, "gerente">>, <<PENDIENTE_GERENCIA, "admin">>,
     <<PENDIENTE_TESORERIA, "tesorero">>, <<PENDIENTE_TESORERIA, "admin">>}

PENDIENTES == {PENDIENTE_JEFE, PENDIENTE_GERENCIA, PENDIENTE_TESORERIA}

AprobacionSinRolRechazada ==
    \A p \in Procs :
        ( /\ Terminada(p, "procesarAprobacion")
          /\ solicitud[p] # SIN_FILA
          /\ solicitud[p].estado \in PENDIENTES
          /\ <<solicitud[p].estado, llamada[p].rol>> \notin PARES_AUTORIZADOS )
        => resultado[p].tipo = "Forbidden"

AprobacionSinRolSinEfecto ==
    \A p \in Procs :
        ( /\ TerminaHabiendoLeido(p, "procesarAprobacion")
          /\ solicitud'[p].estado \in PENDIENTES
          /\ <<solicitud'[p].estado, llamada[p].rol>> \notin PARES_AUTORIZADOS )
        => UNCHANGED dbvars

(* C11: procesarAprobacion on a request in pendiente_jefe, pendiente_gerencia or
   pendiente_tesoreria by a role the table does not authorize for that stage fails
   with Forbidden, for aprobar and for rechazar alike, and changes neither the
   stage nor the ledger. *)
C11_AprobacionSinRolForbidden ==
    []AprobacionSinRolRechazada /\ [][AprobacionSinRolSinEfecto]_vars

\* the gerente tried to reject a request stored in pendiente_tesoreria: Forbidden
C11_Testigo ==
    /\ \E p \in Procs :
          /\ Terminada(p, "procesarAprobacion")
          /\ llamada[p].rol = "gerente" /\ llamada[p].accion = "rechazar"
          /\ solicitud[p].estado = PENDIENTE_TESORERIA
          /\ resultado[p].tipo = "Forbidden"
    /\ Fila(1).estado = PENDIENTE_TESORERIA
    /\ aprobaciones_compra = {}

\* the stage an authorized call that read stage s must leave the request in
EstadoEsperado(accion, s, monto) ==
    IF accion = "rechazar" THEN RECHAZADA
    ELSE SiguienteEnFlujo(calcularFlujoAprobacion(monto), s)

AprobacionAutorizadaNoEsRechazada ==
    \A p \in Procs :
        ( /\ Termina(p)
          /\ llamada[p].fn = "procesarAprobacion"
          /\ solicitud[p] # SIN_FILA
          /\ <<solicitud[p].estado, llamada[p].rol>> \in PARES_AUTORIZADOS )
        => /\ resultado'[p].tipo \in {"ok", "Internal"}
           /\ resultado'[p].tipo = "ok"
              => resultado'[p].valor =
                    [solicitudId |-> llamada[p].solicitudId,
                     estadoAnterior |-> solicitud[p].estado,
                     estadoNuevo |-> EstadoEsperado(llamada[p].accion, solicitud[p].estado,
                                                    solicitud[p].monto_total)]

EfectoDeLaAprobacion ==
    \A p \in Procs :
        (pc[p] = "commit" /\ Termina(p) /\ llamada[p].fn = "procesarAprobacion")
        => LET id == llamada[p].solicitudId
               esperado == EstadoEsperado(llamada[p].accion, solicitud[p].estado,
                                          solicitudes_compra[id].monto_total)
           IN  /\ <<solicitud[p].estado, llamada[p].rol>> \in PARES_AUTORIZADOS
               /\ resultado'[p].tipo = "ok"
               /\ solicitudes_compra'[id].estado = esperado
               /\ aprobaciones_compra \subseteq aprobaciones_compra'
               /\ Cardinality(AprobacionesNuevas) = 1
               /\ \A a \in AprobacionesNuevas :
                     /\ a.solicitud_id = id
                     /\ a.accion = llamada[p].accion
                     /\ a.aprobador_id = llamada[p].usuarioId
                     /\ a.estado_resultante = esperado

(* C12: procesarAprobacion by a role authorized for the pending stage s it read is
   rejected by no check; when it commits it sets estado to rechazada for rechazar
   and, for aprobar, to the entry that follows s in calcularFlujoAprobacion(monto_total)
   under the thresholds of the running process, none when s is the last entry of
   that path or absent from it; it appends exactly one ledger row carrying that
   action, the caller and the resulting stage, and returns {solicitudId,
   estadoAnterior = s, estadoNuevo}. *)
C12_EfectoDeLaAprobacion ==
    [][AprobacionAutorizadaNoEsRechazada /\ EfectoDeLaAprobacion]_vars

\* the comment is absent, null, empty or made of white space only
SinComentario(c) ==
    \/ c.tipo \in {"undefined", "null"}
    \/ c.tipo = "string" /\ \A i \in 1..Len(c.texto) : c.texto[i] \in ESPACIOS

RechazoSinComentarioRechazado ==
    \A p \in Procs :
        ( /\ llamada[p].cuerpo.accion = "rechazar"
          /\ SinComentario(llamada[p].cuerpo.comentario) )
        => /\ pc[p] = "fin"
           /\ llamada[p].fn = "validate"
           /\ resultado[p].tipo = "Validation"

NingunRechazoSinMotivo ==
    \A a \in aprobaciones_compra :
        a.accion = "rechazar" => ~SinComentario(a.comentario)

RechazoSinComentarioSinEfecto ==
    \A p \in Procs :
        ( /\ llamada'[p] # llamada[p]
          /\ llamada'[p].cuerpo.accion = "rechazar"
          /\ SinComentario(llamada'[p].cuerpo.comentario) )
        => UNCHANGED dbvars

(* C13: a request to PATCH /:id/aprobacion with accion rechazar whose comentario is
   absent, null, empty or white space only is answered with Validation by
   validate(accionAprobacionSchema) without procesarAprobacion being called: it
   changes neither the stage nor the ledger, and the ledger never holds a rechazar
   row whose comment is null, empty or white space. *)
C13_RechazoExigeComentario ==
    /\ [](RechazoSinComentarioRechazado /\ NingunRechazoSinMotivo)
    /\ [][RechazoSinComentarioSinEfecto]_vars

\* the admin sent a rejection with a comment of white space only for a request in
\* pendiente_jefe: Validation, nothing changed
C13_Testigo ==
    /\ \E p \in Procs :
          /\ pc[p] = "fin" /\ llamada[p].fn = "validate"
          /\ llamada[p].cuerpo = [accion |-> "rechazar", comentario |-> Cadena(<<" ", "\r", "\n">>)]
          /\ resultado[p].tipo = "Validation"
    /\ Fila(1).estado = PENDIENTE_JEFE
    /\ aprobaciones_compra = {}

(* C14: procesarAprobacion with aprobar that read the request in
   pendiente_tesoreria and succeeded has moved it to aprobada, whatever its
   monto_total. *)
C14_TesoreriaSiempreAprueba ==
    \A p \in Procs :
        ( /\ Terminada(p, "procesarAprobacion")
          /\ llamada[p].accion = "aprobar"
          /\ solicitud[p].estado = PENDIENTE_TESORERIA
          /\ resultado[p].tipo = "ok" )
        => resultado[p].valor.estadoNuevo = APROBADA

(* C15: a request that is rechazada stays rechazada: no step, of a call started
   after the rejection or of one in flight when it committed, changes its stage. *)
C15_RechazadaEsDefinitiva ==
    [][\A id \in DOMAIN solicitudes_compra :
          solicitudes_compra[id].estado = RECHAZADA
          => solicitudes_compra'[id].estado = RECHAZADA]_vars

\* the path of an amount, written from the thresholds
FlujoEsperado(monto) ==
    IF monto < UMBRALES_APROBACION.JEFE_AREA
    THEN <<PENDIENTE_JEFE, APROBADA>>
    ELSE IF monto < UMBRALES_APROBACION.GERENCIA
    THEN <<PENDIENTE_JEFE, PENDIENTE_GERENCIA, APROBADA>>
    ELSE <<PENDIENTE_JEFE, PENDIENTE_GERENCIA, PENDIENTE_TESORERIA, APROBADA>>

AprobacionesNecesarias(monto) ==
    IF monto < UMBRALES_APROBACION.JEFE_AREA THEN 1
    ELSE IF monto < UMBRALES_APROBACION.GERENCIA THEN 2 ELSE 3

(* C16: with one call at a time and no rejection, the request is in borrador with an
   empty history or its history is one envio followed by k aprobar rows, k at most
   the number of approvals of its tier, whose resulting stages are the entries of
   the path of monto_total in order, the request being in the last of them; it is
   aprobada exactly after 1, 2 or 3 approvals (monto below JEFE_AREA, below
   GERENCIA, from GERENCIA on). *)
C16_RecorridoSecuencial ==
    \A id \in DOMAIN solicitudes_compra :
        LET h == obtenerHistorialAprobaciones(id)
            fila == solicitudes_compra[id]
            flujo == FlujoEsperado(fila.monto_total)
        IN  (\A a \in FilasAprobaciones(id) : a.accion # "rechazar")
            => /\ h = <<>> => fila.estado = BORRADOR
               /\ h # <<>> =>
                     /\ Len(h) <= AprobacionesNecesarias(fila.monto_total) + 1
                     /\ h[1].accion = "envio"
                     /\ \A i \in 2..Len(h) : h[i].accion = "aprobar"
                     /\ \A i \in 1..Len(h) : h[i].estado_resultante = flujo[i]
                     /\ fila.estado = flujo[Len(h)]
                     /\ fila.estado = APROBADA
                        <=> Len(h) = AprobacionesNecesarias(fila.monto_total) + 1

\* a request of 20000000 was sent and approved three times: it is aprobada
C16_Testigo ==
    /\ Fila(1).monto_total = 20000000
    /\ Fila(1).estado = APROBADA
    /\ Len(obtenerHistorialAprobaciones(1)) = 4
    /\ Cardinality({a \in aprobaciones_compra : a.accion = "aprobar"}) = 3
    /\ \A p \in Procs : pc[p] # "fin" \/ resultado[p].tipo = "ok"

(* C17: every step that changes the stage of a request takes it from borrador to
   pendiente_jefe, from a pending stage to the entry that follows it in the path of
   its monto_total, or from a pending stage to rechazada. *)
C17_SinSaltosNiRetrocesos ==
    [][\A id \in DOMAIN solicitudes_compra :
          LET antes == solicitudes_compra[id].estado
              despues == solicitudes_compra'[id].estado
          IN  despues # antes
              => \/ antes = BORRADOR /\ despues = PENDIENTE_JEFE
                 \/ antes \in PENDIENTES /\ despues = RECHAZADA
                 \/ /\ antes \in PENDIENTES
                    /\ despues = SiguienteEnFlujo(
                           FlujoEsperado(solicitudes_compra[id].monto_total), antes)]_vars

\* the ordinal of a stage; -1 for a stage that has none
OrdinalDeEstado(estado) ==
    IF estado = PENDIENTE_JEFE THEN 1
    ELSE IF estado = PENDIENTE_GERENCIA THEN 2
    ELSE IF estado = PENDIENTE_TESORERIA THEN 3
    ELSE -1

(* C18: every ledger row added carries a level: 0 exactly when its action is envio,
   and otherwise the ordinal (1, 2, 3) of the stage the request held immediately
   before the step that added the row. *)
C18_NivelDelEstadoPrevio ==
    [][\A a \in AprobacionesNuevas :
          /\ a.nivel_aprobacion \in 0..3
          /\ a.nivel_aprobacion = 0 <=> a.accion = "envio"
          /\ a.accion # "envio"
             => a.nivel_aprobacion =
                   OrdinalDeEstado(solicitudes_compra[a.solicitud_id].estado)]_vars

(* C19: the history of a request, in the order obtenerHistorialAprobaciones returns
   it, only grows at its end: every step leaves it as it is or appends one row to
   it. *)
C19_HistorialSoloCreceAlFinal ==
    [][\A id \in DOMAIN solicitudes_compra :
          LET antes == obtenerHistorialAprobaciones(id)
              despues == obtenerHistorialAprobaciones(id)'
          IN  \/ despues = antes
              \/ /\ Len(despues) = Len(antes) + 1
                 /\ SubSeq(despues, 1, Len(antes)) = antes]_vars

\* h holds every committed ledger row of request id, once, by created_at ascending
HistorialCompletoYOrdenado(h, id) ==
    /\ Len(h) = Cardinality(FilasAprobaciones(id))
    /\ \A a \in FilasAprobaciones(id) :
          \E i \in 1..Len(h) : [c \in DOMAIN a |-> h[i][c]] = a
    /\ \A i \in 1..Len(h) : \A j \in (i + 1)..Len(h) : h[i].created_at <= h[j].created_at

ObtenerRespondeSegunExista ==
    \A p \in Procs :
        Terminada(p, "obtenerSolicitudConHistorial")
        => /\ llamada[p].solicitudId \notin DOMAIN solicitudes_compra
              => resultado[p].tipo \in {"NotFound", "Internal"}
           /\ llamada[p].solicitudId \in DOMAIN solicitudes_compra
              => resultado[p].tipo \in {"ok", "Internal"}
           /\ resultado[p].tipo = "ok"
              => /\ resultado[p].valor.solicitud.solicitante_id =
                       solicitudes_compra[llamada[p].solicitudId].solicitante_id
                 /\ resultado[p].valor.solicitud.monto_total =
                       solicitudes_compra[llamada[p].solicitudId].monto_total
                 /\ resultado[p].valor.historial_aprobaciones = historial[p]

HistorialLeidoCompleto ==
    \A p \in Procs :
        ( /\ llamada[p].fn = "obtenerSolicitudConHistorial"
          /\ \/ pc[p] = "consultas" /\ pc'[p] = "falta_solicitud"
             \/ /\ pc[p] = "falta_historial" /\ pc'[p] = "fin"
                /\ resultado'[p].tipo \in {"ok", "NotFound"} )
        => HistorialCompletoYOrdenado(historial'[p], llamada[p].solicitudId)

(* C20: obtenerSolicitudConHistorial(id) fails with NotFound when no request has
   that id, and otherwise returns the request together with the rows its history
   query read: all the ledger rows of the request committed when the query was
   answered, each once, ordered by created_at ascending. *)
C20_ObtenerConHistorial ==
    []ObtenerRespondeSegunExista /\ [][HistorialLeidoCompleto]_vars

\* the request was sent and approved, then read with its two rows in order
C20_Testigo ==
    \E p \in Procs :
        /\ Terminada(p, "obtenerSolicitudConHistorial")
        /\ resultado[p].tipo = "ok"
        /\ resultado[p].valor.solicitud.estado = Fila(1).estado
        /\ Len(resultado[p].valor.historial_aprobaciones) = 2
        /\ resultado[p].valor.historial_aprobaciones[1].accion = "envio"
        /\ resultado[p].valor.historial_aprobaciones[2].accion = "aprobar"
        /\ resultado[p].valor.historial_aprobaciones[2].aprobador_nombre = "Bruno"

(* C21: obtenerSolicitudConHistorial running while w1 sends, approves or rejects
   never returns a mixed answer: the request it returns is in borrador and the
   history is empty, or the stage it returns is the resulting stage of the last row
   of the history it returns. *)
C21_LecturaSinEstadoIntermedio ==
    \A p \in Procs :
        ( /\ Terminada(p, "obtenerSolicitudConHistorial")
          /\ resultado[p].tipo = "ok" )
        => LET h == resultado[p].valor.historial_aprobaciones
               estado == resultado[p].valor.solicitud.estado
           IN  IF h = <<>> THEN estado = BORRADOR
               ELSE estado = h[Len(h)].estado_resultante

(* C27: every enviarSolicitud or procesarAprobacion that commits was validated
   against the stage and the amount the request holds when its write is applied:
   at the step that commits, the row the call read has the estado and the
   monto_total of the stored row. *)
C27_ValidadoContraElEstadoActual ==
    [][\A p \in Procs :
          ( /\ pc[p] = "commit" /\ pc'[p] = "fin"
            /\ resultado'[p].tipo = "ok" )
          => /\ solicitud[p].estado = solicitudes_compra[llamada[p].solicitudId].estado
             /\ solicitud[p].monto_total =
                   solicitudes_compra[llamada[p].solicitudId].monto_total]_vars

(* C30: procesarAprobacion with aprobar by a role authorized for the pending stage
   it read, when that stage has no following entry in the path of monto_total under
   the thresholds in force, never succeeds: it ends with Validation (or with the
   error of a failed statement), also for a pending stage absent from the path. *)
C30_SinSiguienteEsValidation ==
    [][\A p \in Procs :
          ( /\ Termina(p)
            /\ llamada[p].fn = "procesarAprobacion"
            /\ llamada[p].accion = "aprobar"
            /\ solicitud[p].estado \in PENDIENTES
            /\ puedeAprobar(llamada[p].rol, solicitud[p].estado)
            /\ SiguienteEnFlujo(FlujoEsperado(solicitud[p].monto_total),
                                solicitud[p].estado) = NULL )
          => resultado'[p].tipo \in {"Validation", "Internal"}]_vars

\* the rows of request id among the committed items
ItemsDeSolicitud(id) == {it \in solicitud_compra_items : it.solicitud_id = id}

\* nothing of the requests numbered after the stored one is in the database
NadaCreado ==
    /\ DOMAIN solicitudes_compra = {1}
    /\ \A it \in solicitud_compra_items : it.solicitud_id = 1

(* C25: crearSolicitud stores the request and all of its items in one transaction:
   unless a statement of that transaction fails for a fault of the database or the
   connection, the call succeeds, and then the request is stored in borrador with
   one row for every item, no ledger row, and monto_total the sum of
   cantidad * precio_unitario; a call that fails leaves no request and no item. *)
C25_CreacionAtomica ==
    \A p \in Procs :
        Terminada(p, "crearSolicitud")
        => \/ /\ resultado[p].tipo = "ok"
              /\ \E id \in DOMAIN resultado[p].valor.solicitud :
                    /\ id \in DOMAIN solicitudes_compra
                    /\ solicitudes_compra[id].estado = BORRADOR
                    /\ solicitudes_compra[id].monto_total =
                          montoTotal(llamada[p].datos.items)
                    /\ Cardinality(ItemsDeSolicitud(id)) = Len(llamada[p].datos.items)
                    /\ FilasAprobaciones(id) = {}
           \/ /\ resultado[p] = [tipo |-> "Internal", valor |-> SIN_VALOR]
              /\ NadaCreado

\* the sum of cantidad * precio_unitario over a set of item rows
RECURSIVE SumaDeItems(_)
SumaDeItems(items) ==
    IF items = {} THEN 0
    ELSE LET it == CHOOSE x \in items : TRUE
         IN  it.cantidad * it.precio_unitario + SumaDeItems(items \ {it})

MontoEsLaSumaDeLosItems ==
    \A id \in DOMAIN solicitudes_compra :
        solicitudes_compra[id].monto_total = SumaDeItems(ItemsDeSolicitud(id))

EnvioYAprobacionNoTocanElMonto ==
    \A id \in DOMAIN solicitudes_compra :
        /\ id \in DOMAIN solicitudes_compra'
        /\ solicitudes_compra'[id].monto_total = solicitudes_compra[id].monto_total
        /\ solicitudes_compra'[id].solicitante_id = solicitudes_compra[id].solicitante_id
        /\ ItemsDeSolicitud(id)' = ItemsDeSolicitud(id)
        /\ calcularFlujoAprobacion(solicitudes_compra'[id].monto_total) =
              calcularFlujoAprobacion(solicitudes_compra[id].monto_total)

(* C26: no step of enviarSolicitud or procesarAprobacion changes the monto_total,
   the items or the solicitante_id of a request, so the path
   calcularFlujoAprobacion computes for it stays the same, and monto_total stays
   the sum of cantidad * precio_unitario over its items. *)
C26_MontoItemsYSolicitanteFijos ==
    []MontoEsLaSumaDeLosItems /\ [][EnvioYAprobacionNoTocanElMonto]_vars

\* the request of 20000000 was sent and rejected: two commits later its amount is
\* still the one of its item
C26_Testigo ==
    /\ Fila(1).estado = RECHAZADA
    /\ Cardinality(aprobaciones_compra) = 2
    /\ Fila(1).monto_total = 20000000
    /\ Fila(1).solicitante_id = 1
    /\ SumaDeItems(ItemsDeSolicitud(1)) = 20000000

\* no row has this id, or the row is soft-deleted
AusenteOBorrada(id) ==
    id \notin DOMAIN solicitudes_compra \/ solicitudes_compra[id].deleted_at # NULL

\* the read of enviarSolicitud or procesarAprobacion that finds the request absent
\* or soft-deleted ends the call with NotFound (or the error of the failed query)
\* and changes nothing
LecturaDeBorradaEsNotFound ==
    \A p \in Procs :
        ( /\ pc[p] = "leer" /\ pc'[p] # "leer"
          /\ AusenteOBorrada(llamada[p].solicitudId) )
        => /\ pc'[p] = "fin"
           /\ resultado'[p].tipo \in {"NotFound", "Internal"}
           /\ UNCHANGED dbvars

\* obtenerSolicitudConHistorial whose query of the request found it absent or
\* soft-deleted ends with NotFound (or the error of a failed query)
ObtenerBorradaEsNotFound ==
    \A p \in Procs :
        ( /\ llamada[p].fn = "obtenerSolicitudConHistorial"
          /\ \/ pc[p] = "consultas" /\ pc'[p] = "falta_historial"
             \/ pc[p] = "falta_solicitud" /\ pc'[p] = "fin" /\ solicitud'[p] # solicitud[p]
          /\ AusenteOBorrada(llamada[p].solicitudId) )
        => /\ solicitud'[p] = SIN_FILA
           /\ pc'[p] = "fin" => resultado'[p].tipo = "NotFound"
           /\ UNCHANGED dbvars

\* no step changes a soft-deleted request or adds a ledger row to it
BorradaNoCambia ==
    \A id \in DOMAIN solicitudes_compra :
        solicitudes_compra[id].deleted_at # NULL
        => /\ solicitudes_compra'[id] = solicitudes_compra[id]
           /\ FilasAprobaciones(id)' = FilasAprobaciones(id)

(* C22: enviarSolicitud, procesarAprobacion and obtenerSolicitudConHistorial on an
   id that no row has or whose row is soft-deleted fail with NotFound and change
   nothing, and no step of enviarSolicitud or procesarAprobacion changes a
   soft-deleted request or its ledger, also when the request is soft-deleted
   between the read and the write of the call. *)
C22_BorradaEsNotFoundYNoCambia ==
    [][LecturaDeBorradaEsNotFound /\ ObtenerBorradaEsNotFound /\ BorradaNoCambia]_vars

\* the entries of registro that are op, answered or not
Veces(op) == Cardinality({i \in 1..Len(registro) : registro[i].op = op})

\* the clients the pool handed out
Adquiridos == Cardinality({i \in 1..Len(registro) : registro[i] = Hecho("connect")})

(* C28: withTransaction acquires at most one client and releases it exactly once on
   every way out (COMMIT answered; callback, BEGIN or COMMIT failed; ROLLBACK
   failed too): while the call runs nothing is released, when it has ended the
   client it acquired was released once and as its last step, and when
   pool.connect() failed nothing was acquired, asked of a client or released. *)
C28_UnClienteLiberadoUnaVez ==
    \A p \in UnProceso :
        llamada[p].fn = "withTransaction"
        => /\ Adquiridos <= 1
           /\ Veces("release") <= Adquiridos
           /\ \A i \in 1..Len(registro) : registro[i].op = "release" => i = Len(registro)
           /\ EnCurso(p) => Veces("release") = 0
           /\ pc[p] = "fin"
              => /\ Veces("release") = Adquiridos
                 /\ Adquiridos = 1 => registro[Len(registro)] = Hecho("release")
                 /\ Adquiridos = 0 => registro = <<Fallido("connect")>>

\* COMMIT was rejected and then ROLLBACK too: the client was still released, last
C28_Testigo ==
    /\ pc["w1"] = "fin" /\ llamada["w1"].fn = "withTransaction"
    /\ registro = <<Hecho("connect"), Hecho("BEGIN"), Hecho("query"),
                    Fallido("COMMIT"), Fallido("ROLLBACK"), Hecho("release")>>

\* the error raised inside the transaction of the finished call: the one of the
\* rejected BEGIN, query of the callback or COMMIT, or the one the callback threw
ErrorLevantado(p) ==
    IF \E op \in {"BEGIN", "query", "COMMIT"} :
          \E i \in 1..Len(registro) : registro[i] = Fallido(op)
    THEN ErrorDe(CHOOSE op \in {"BEGIN", "query", "COMMIT"} :
                    \E i \in 1..Len(registro) : registro[i] = Fallido(op))
    ELSE IF /\ llamada[p].callback.lanza
            /\ \E i \in 1..Len(registro) : registro[i] = Hecho("BEGIN")
            /\ ConsultasHechas = llamada[p].callback.consultas
    THEN ERROR_DEL_CALLBACK
    ELSE SIN_ERROR

(* C29: an error raised inside the transaction of withTransaction (by BEGIN, by the
   callback or one of its queries, by COMMIT) is the error the caller gets, after
   ROLLBACK was sent; COMMIT is sent only when the callback returned without
   error; the value of the callback is returned only after COMMIT was answered. *)
C29_ErrorIntactoTrasRollback ==
    \A p \in UnProceso :
        llamada[p].fn = "withTransaction"
        => /\ Veces("COMMIT") > 0
              => /\ ~llamada[p].callback.lanza
                 /\ ConsultasHechas = llamada[p].callback.consultas
                 /\ \A i \in 1..Len(registro) : registro[i] # Fallido("query")
           /\ (pc[p] = "fin" /\ resultado[p].tipo = "ok")
              => /\ resultado[p].valor = VALOR_DEL_CALLBACK
                 /\ \E i \in 1..Len(registro) : registro[i] = Hecho("COMMIT")
           /\ (pc[p] = "fin" /\ ErrorLevantado(p) # SIN_ERROR)
              => /\ Veces("ROLLBACK") = 1
                 /\ resultado[p] = ErrorLevantado(p)

\* the requests the role may act on: not soft-deleted, in a stage ROLES_POR_ESTADO
\* gives to the role
Elegibles(rol) ==
    {id \in DOMAIN solicitudes_compra :
        /\ solicitudes_compra[id].deleted_at = NULL
        /\ puedeAprobar(rol, solicitudes_compra[id].estado)}

(* C24: in the list obtenerFlujoPendiente returns, of two consecutive entries x
   before y, x is urgent or y is not, and when both have the same urgency x was
   created no earlier than y, whatever the stages of x and y. *)
C24_UrgentesYRecientesPrimero ==
    \A p \in Procs :
        ( /\ Terminada(p, "obtenerFlujoPendiente")
          /\ resultado[p].tipo = "ok" )
        => LET data == resultado[p].valor.data
           IN  \A i \in 1..(Len(data) - 1) :
                  /\ data[i].urgente \/ ~data[i + 1].urgente
                  /\ data[i].urgente = data[i + 1].urgente
                     => data[i].created_at >= data[i + 1].created_at

\* the admin is shown the urgent request in pendiente_tesoreria before the newer,
\* not urgent one in pendiente_jefe, which the first query returned
C24_Testigo ==
    /\ solicitudes_compra[1].estado = PENDIENTE_TESORERIA
    /\ solicitudes_compra[1].urgente /\ solicitudes_compra[1].created_at = 1
    /\ solicitudes_compra[2].estado = PENDIENTE_JEFE
    /\ ~solicitudes_compra[2].urgente /\ solicitudes_compra[2].created_at = 2
    /\ \E p \in Procs :
          /\ Terminada(p, "obtenerFlujoPendiente")
          /\ llamada[p].rol = "admin"
          /\ resultado[p].tipo = "ok"
          /\ Len(resultado[p].valor.data) = 2
          /\ resultado[p].valor.data[1].id = 1
          /\ resultado[p].valor.data[2].id = 2

----------------------------------------------------------------------------
(* The approval protocol as a whole *)

\* s occurs in the sequence f
EnFlujo(f, s) == \E i \in 1..Len(f) : f[i] = s

\* the callback of procesarAprobacion throws 'No hay siguiente estado en el flujo'
SinSiguienteLanzado(p) ==
    /\ pc[p] = "begin"
    /\ llamada[p].fn = "procesarAprobacion"
    /\ pc'[p] = "rollback"
    /\ error'[p].tipo = "Validation"

(* C31: for every amount and every pending stage of calcularFlujoAprobacion(amount),
   siguienteEstado(stage, amount) is a stage, never null, with the thresholds the
   process started with (no step changes them); and no step of a call on
   a request that was stored in borrador and moved by enviarSolicitud and
   procesarAprobacion throws 'No hay siguiente estado en el flujo'. *)
C31_SiempreHaySiguiente ==
    /\ \A m \in MONTOS, s \in PENDIENTES :
          EnFlujo(calcularFlujoAprobacion(m), s)
          => siguienteEstado(s, m) \in ESTADOS_COMPRA
    /\ [][\A p \in Procs : ~SinSiguienteLanzado(p)]_vars

\* an approval of a request of 20000000 read in pendiente_gerencia has computed its
\* next stage and sent its UPDATE
C31_Testigo ==
    \E p \in Procs :
        /\ pc[p] = "update"
        /\ llamada[p].fn = "procesarAprobacion"
        /\ llamada[p].accion = "aprobar"
        /\ solicitud[p].estado = PENDIENTE_GERENCIA
        /\ solicitud[p].monto_total = 20000000
        /\ EstadoAEscribir(p) = PENDIENTE_TESORERIA

(* C32: a request that is aprobada stays aprobada and its ledger stays as it is: no
   step, of a call started after the approval or of one in flight when it
   committed, changes its stage or adds a ledger row. *)
C32_AprobadaEsDefinitiva ==
    [][\A id \in DOMAIN solicitudes_compra :
          solicitudes_compra[id].estado = APROBADA
          => /\ solicitudes_compra'[id].estado = APROBADA
             /\ FilasAprobaciones(id)' = FilasAprobaciones(id)]_vars

(* C33: a request that is not in borrador has a non-empty ledger and its stage is
   the resulting stage of the last row of its history, in the order
   obtenerHistorialAprobaciones returns it (created_at ascending); a request in
   borrador has an empty ledger. *)
C33_EstadoEsElDelUltimoEvento ==
    \A id \in DOMAIN solicitudes_compra :
        LET h == obtenerHistorialAprobaciones(id)
            fila == solicitudes_compra[id]
        IN  /\ fila.estado = BORRADOR => h = <<>>
            /\ fila.estado # BORRADOR
               => /\ h # <<>>
                  /\ fila.estado = h[Len(h)].estado_resultante

(* C34: the history of a request is a chain: its first row is its only envio row
   (level 0), the level of every later row is the ordinal (1, 2, 3) of the
   resulting stage of the row before it, and no row follows a row whose resulting
   stage is aprobada or rechazada; also with concurrent calls on the request. *)
C34_HistorialEncadenado ==
    \A id \in DOMAIN solicitudes_compra :
        LET h == obtenerHistorialAprobaciones(id)
        IN  /\ \A i \in 1..Len(h) :
                  /\ h[i].accion = "envio" <=> i = 1
                  /\ h[i].nivel_aprobacion = 0 <=> i = 1
            /\ \A i \in 1..(Len(h) - 1) :
                  /\ h[i].estado_resultante \notin {APROBADA, RECHAZADA}
                  /\ h[i + 1].nivel_aprobacion = OrdinalDeEstado(h[i].estado_resultante)

----------------------------------------------------------------------------
(* Two workers on a request that is under way: it was sent by its requester and  *)
(* approved some times, one call after the other, before the calls looked at.    *)

MaxOpsEnTramite == 2

\* who approved so far: the jefe_area at pendiente_jefe, the gerente at pendiente_gerencia
APROBADORES_PREVIOS == <<2, 3>>

\* the ledger rows of request id after its envio (at time 1) and k approvals (at
\* times 2 to k + 1), as registrarAprobacion inserted them
LibroPrevio(id, solicitanteId, flujo, k) ==
    {[solicitud_id |-> id, nivel_aprobacion |-> 0, accion |-> "envio",
      comentario |-> COMENTARIO_ENVIO, aprobador_id |-> solicitanteId,
      estado_resultante |-> PENDIENTE_JEFE, created_at |-> 1]}
    \cup {[solicitud_id |-> id, nivel_aprobacion |-> nivelMap(flujo[i]),
           accion |-> "aprobar", comentario |-> Parametro(UNDEFINED),
           aprobador_id |-> APROBADORES_PREVIOS[i],
           estado_resultante |-> flujo[i + 1], created_at |-> i + 1] : i \in 1..k}

\* the row of the request after those calls, as actualizarEstadoSolicitud left it
FilaPrevia(monto, solicitanteId, flujo, k) ==
    [FilaNueva(monto, solicitanteId) EXCEPT
        !.estado = flujo[k + 1],
        !.updated_by = IF k = 0 THEN solicitanteId ELSE APROBADORES_PREVIOS[k],
        !.updated_at = k + 1]

\* The database holds one request in a pending stage of its path, with the ledger
\* of the calls that brought it there.
InitEnTramite ==
    /\ UMBRALES_APROBACION = UmbralesPorDefecto
    /\ \E m \in MONTOS, u \in SOLICITANTES :
          \E k \in 0..(Len(calcularFlujoAprobacion(m)) - 2) :
              /\ solicitudes_compra =
                    [id \in {1} |-> FilaPrevia(m, u, calcularFlujoAprobacion(m), k)]
              /\ solicitud_compra_items = ItemsDe(1, m)
              /\ aprobaciones_compra = LibroPrevio(1, u, calcularFlujoAprobacion(m), k)
              /\ reloj = k + 2
    /\ secuencia = 1
    /\ restantes = MaxOpsEnTramite
    /\ pc = [p \in Procs |-> "idle"]
    /\ llamada = [p \in Procs |-> SIN_LLAMADA]
    /\ solicitud = [p \in Procs |-> SIN_FILA]
    /\ tx = [p \in Procs |-> SIN_TX]
    /\ error = [p \in Procs |-> SIN_ERROR]
    /\ resultado = [p \in Procs |-> SIN_RESULTADO]
    /\ historial = [p \in Procs |-> <<>>]
    /\ evaluacion = SIN_EVALUACION
    /\ registro = <<>>
    /\ resultados = [p \in Procs |-> <<>>]

SpecEnTramite == InitEnTramite /\ [][Next]_vars

\* the role of user sub
RolDe(sub) == (CHOOSE u \in USUARIOS : u.sub = sub).rol

\* the ledger of request id holds an approval at stage s by a role authorized for s
AprobadaEn(id, s) ==
    \E a \in FilasAprobaciones(id) :
        /\ a.accion = "aprobar"
        /\ a.nivel_aprobacion = OrdinalDeEstado(s)
        /\ <<s, RolDe(a.aprobador_id)>> \in PARES_AUTORIZADOS

(* C35: a request in aprobada has, for every pending stage of the path of its
   monto_total, an aprobar row of that stage's level by a user whose role is
   authorized for the stage; a request of monto_total >= GERENCIA is never aprobada
   without an approval at pendiente_tesoreria by a tesorero or an admin, whatever
   the interleaving of the calls. *)
C35_AprobadaConTodasLasAprobaciones ==
    \A id \in DOMAIN solicitudes_compra :
        LET fila == solicitudes_compra[id]
            flujo == FlujoEsperado(fila.monto_total)
        IN  fila.estado = APROBADA
            => /\ \A i \in 1..(Len(flujo) - 1) : AprobadaEn(id, flujo[i])
               /\ fila.monto_total >= UMBRALES_APROBACION.GERENCIA
                  => \E a \in FilasAprobaciones(id) :
                        /\ a.accion = "aprobar"
                        /\ a.nivel_aprobacion = 3
                        /\ RolDe(a.aprobador_id) \in {"tesorero", "admin"}

\* a request of 20000000 is aprobada although a rejection read in the same stage
\* committed too: the approval at pendiente_tesoreria was written last
C35_Testigo ==
    /\ Fila(1).monto_total = 20000000
    /\ Fila(1).estado = APROBADA
    /\ \E a \in FilasAprobaciones(1) : a.accion = "rechazar" /\ a.nivel_aprobacion = 3
    /\ \E a \in FilasAprobaciones(1) :
          a.accion = "aprobar" /\ a.nivel_aprobacion = 3 /\ a.aprobador_id = 4

(* C36: a request whose history holds a rechazar row is in rechazada, and that row
   is the last row of its history. *)
C36_RechazoEsElUltimoEvento ==
    \A id \in DOMAIN solicitudes_compra :
        LET h == obtenerHistorialAprobaciones(id)
        IN  \A i \in 1..Len(h) :
                h[i].accion = "rechazar"
                => /\ solicitudes_compra[id].estado = RECHAZADA
                   /\ i = Len(h)

(* C37: a request is in pendiente_gerencia only if its monto_total >= JEFE_AREA and
   in pendiente_tesoreria only if its monto_total >= GERENCIA: the stage of a
   request that is neither in borrador nor rechazada is an entry of the path of its
   monto_total. *)
C37_EstadoEnElFlujoDelMonto ==
    \A id \in DOMAIN solicitudes_compra :
        LET fila == solicitudes_compra[id]
        IN  /\ fila.estado = PENDIENTE_GERENCIA
               => fila.monto_total >= UMBRALES_APROBACION.JEFE_AREA
            /\ fila.estado = PENDIENTE_TESORERIA
               => fila.monto_total >= UMBRALES_APROBACION.GERENCIA
            /\ fila.estado \notin {BORRADOR, RECHAZADA}
               => EnFlujo(FlujoEsperado(fila.monto_total), fila.estado)

\* two approvals of a request of 5000000 read in pendiente_jefe both committed: the
\* request is in pendiente_gerencia, the second entry of its path
C37_Testigo ==
    /\ Fila(1).monto_total = 5000000
    /\ Fila(1).estado = PENDIENTE_GERENCIA
    /\ \A p \in Procs :
          /\ Terminada(p, "procesarAprobacion")
          /\ resultado[p].tipo = "ok"
          /\ solicitud[p].estado = PENDIENTE_JEFE
          /\ resultado[p].valor.estadoNuevo = PENDIENTE_GERENCIA

\* the stages crearSolicitud, enviarSolicitud and procesarAprobacion write
ESTADOS_DEL_FLUJO ==
    {BORRADOR, PENDIENTE_JEFE, PENDIENTE_GERENCIA, PENDIENTE_TESORERIA, APROBADA,
     RECHAZADA}

(* C38: through crearSolicitud, enviarSolicitud and procesarAprobacion the stage of
   a request, stored or written in an open transaction, is borrador, one of the
   three pending stages, aprobada or rechazada, never anulada, en_proceso or
   completada; no step takes a request from aprobada to completada. *)
C38_SoloEstadosDelFlujo ==
    /\ [](/\ \A id \in DOMAIN solicitudes_compra :
                solicitudes_compra[id].estado \in ESTADOS_DEL_FLUJO
          /\ \A a \in aprobaciones_compra : a.estado_resultante \in ESTADOS_DEL_FLUJO
          /\ \A p \in Procs :
                /\ tx[p].update # SIN_UPDATE => tx[p].update.estado \in ESTADOS_DEL_FLUJO
                /\ \A id \in DOMAIN tx[p].filas : tx[p].filas[id].estado = BORRADOR
                /\ \A a \in tx[p].inserts : a.estado_resultante \in ESTADOS_DEL_FLUJO)
    /\ [][\A id \in DOMAIN solicitudes_compra :
             solicitudes_compra[id].estado = APROBADA
             => solicitudes_compra'[id].estado # COMPLETADA]_vars

\* the stored request of 5000000 went from borrador to aprobada, then a
\* crearSolicitud wrote its row in its transaction
C38_Testigo ==
    /\ Fila(1).monto_total = 5000000
    /\ Fila(1).estado = APROBADA
    /\ \E a \in FilasAprobaciones(1) : a.estado_resultante = PENDIENTE_GERENCIA
    /\ \E p \in Procs :
          /\ llamada[p].fn = "crearSolicitud"
          /\ pc[p] = "crear_items"
          /\ \E id \in DOMAIN tx[p].filas : tx[p].filas[id].estado = BORRADOR

\* the rows of the ledger of request id with one of the given actions
FilasConAccion(id, acciones) == {a \in FilasAprobaciones(id) : a.accion \in acciones}

(* C39: whatever calls are made, one after the other or concurrently, the ledger of
   a request holds at most one envio row and at most three aprobar or rechazar
   rows, four rows at most. *)
C39_ALoSumoCuatroEventos ==
    \A id \in DOMAIN solicitudes_compra :
        /\ Cardinality(FilasConAccion(id, {"envio"})) <= 1
        /\ Cardinality(FilasConAccion(id, {"aprobar", "rechazar"})) <= 3
        /\ Cardinality(FilasAprobaciones(id)) <= 4

----------------------------------------------------------------------------
(* The pending list asked for while the request is written to *)

PasoDeListado(p) ==
    LlamarPendientes(p) \/ RespondeData(p) \/ RespondeCount(p) \/ FallaDeListado(p)

\* one worker serves the writing calls while the other serves GET /, and the
\* request may be retired
NextListadoConEscritura ==
    \/ \E p \in UnProceso : Paso(p)
    \/ \E p \in Procs \ UnProceso : PasoDeListado(p)
    \/ \E id \in DOMAIN solicitudes_compra : BorradoLogico(id)

MaxOpsListado == 1

\* As InitEnTramite, with the number of writing calls made while the list is asked for.
InitListadoConEscritura ==
    /\ UMBRALES_APROBACION = UmbralesPorDefecto
    /\ \E m \in MONTOS, u \in SOLICITANTES :
          \E k \in 0..(Len(calcularFlujoAprobacion(m)) - 2) :
              /\ solicitudes_compra =
                    [id \in {1} |-> FilaPrevia(m, u, calcularFlujoAprobacion(m), k)]
              /\ solicitud_compra_items = ItemsDe(1, m)
              /\ aprobaciones_compra = LibroPrevio(1, u, calcularFlujoAprobacion(m), k)
              /\ reloj = k + 2
    /\ secuencia = 1
    /\ restantes = MaxOpsListado
    /\ pc = [p \in Procs |-> "idle"]
    /\ llamada = [p \in Procs |-> SIN_LLAMADA]
    /\ solicitud = [p \in Procs |-> SIN_FILA]
    /\ tx = [p \in Procs |-> SIN_TX]
    /\ error = [p \in Procs |-> SIN_ERROR]
    /\ resultado = [p \in Procs |-> SIN_RESULTADO]
    /\ historial = [p \in Procs |-> <<>>]
    /\ evaluacion = SIN_EVALUACION
    /\ registro = <<>>
    /\ resultados = [p \in Procs |-> <<>>]

SpecListadoConEscritura == InitListadoConEscritura /\ [][NextListadoConEscritura]_vars

\* the stages in which rol may act
EstadosDelRol(rol) == {s \in ESTADOS_COMPRA : puedeAprobar(rol, s)}

\* the listings of the stages asked for by the call of p are those of the stages in
\* which its role may act, one for each
ListadosDeLosEstadosDelRol(p) ==
    LET estados == estadosPorRol(llamada[p].rol).valores
    IN  /\ Len(resultados[p]) = Cardinality(EstadosDelRol(llamada[p].rol))
        /\ {estados[i] : i \in 1..Len(estados)} = EstadosDelRol(llamada[p].rol)

\* the list returned holds the rows of the listings answered, and only those, all of
\* them in a stage in which the role may act
ListaDeLosListados(p) ==
    LET data == resultado[p].valor.data
        respuestas == resultados[p]
    IN  /\ resultado[p].valor.total = Len(data)
        /\ \A i \in 1..Len(data) : puedeAprobar(llamada[p].rol, data[i].estado)
        /\ \A f \in {data[i] : i \in 1..Len(data)}
                 \cup UNION {{respuestas[k].data[i] : i \in 1..Len(respuestas[k].data)} :
                                k \in 1..Len(respuestas)} :
              Cardinality({i \in 1..Len(data) : data[i] = f})
              = Cardinality({<<k, i>> \in (1..Len(respuestas)) \X (1..MaxFilas) :
                                i <= Len(respuestas[k].data)
                                /\ respuestas[k].data[i] = f})

\* the call of p, made with a role that may act in no stage, ended with an empty list
ListaVaciaSinEstados(p) ==
    EstadosDelRol(llamada[p].rol) = {}
    => /\ resultado[p].tipo = "ok"
       /\ resultado[p].valor.data = <<>>
       /\ resultado[p].valor.total = 0

\* the listing of a stage answered in this step holds, once each and with that stage,
\* the requests that are in the stage and not soft-deleted when it is answered
ListadoDelEstado(p) ==
    \A k \in 1..Len(resultados'[p]) :
        ( /\ pc[p] = "listados"
          /\ ~resultados[p][k].dataRespondida
          /\ resultados'[p][k].dataRespondida
          /\ \A s \in ESTADOS_COMPRA : Cardinality(IdsListados(s)) <= LIMITE_PENDIENTES )
        => LET d == resultados'[p][k].data
               s == estadosPorRol(llamada[p].rol).valores[k]
               enEstado == {id \in DOMAIN solicitudes_compra :
                               /\ solicitudes_compra[id].deleted_at = NULL
                               /\ solicitudes_compra[id].estado = s}
           IN  /\ {d[i].id : i \in 1..Len(d)} = enEstado
               /\ Len(d) = Cardinality(enEstado)
               /\ \A i \in 1..Len(d) : d[i].estado = s

(* C23: obtenerFlujoPendiente(rol) lists exactly the stages s with
   puedeAprobar(rol, s); the listing of each, with at most 100 requests in a stage,
   holds once each the requests that are in that stage and not soft-deleted when
   it is answered; the list returned holds the rows of those listings and no other;
   and the call of a role that may act in no stage, whatever the role the token
   carries, returns an empty list. *)
C23_PendientesSegunElRol ==
    /\ [](\A p \in Procs :
             /\ (llamada[p].fn = "obtenerFlujoPendiente" /\ pc[p] \in {"listados", "fin"})
                => ListadosDeLosEstadosDelRol(p)
             /\ (Terminada(p, "obtenerFlujoPendiente") /\ resultado[p].tipo = "ok")
                => ListaDeLosListados(p)
             /\ Terminada(p, "obtenerFlujoPendiente") => ListaVaciaSinEstados(p))
    /\ [][\A p \in Procs : ListadoDelEstado(p)]_vars

\* the gerente is shown request 1 twice, in pendiente_jefe and in pendiente_gerencia:
\* its approval by the jefe_area committed between the answers of the two listings
C23_Testigo ==
    \E p \in Procs :
        /\ Terminada(p, "obtenerFlujoPendiente")
        /\ llamada[p].rol = "gerente"
        /\ resultado[p].tipo = "ok"
        /\ Len(resultado[p].valor.data) = 2
        /\ resultado[p].valor.data[1].id = 1
        /\ resultado[p].valor.data[2].id = 1
        /\ {resultado[p].valor.data[i].estado : i \in 1..2}
           = {PENDIENTE_JEFE, PENDIENTE_GERENCIA}

\* the gerente is shown an empty list although request 1 is in a stage of the
\* gerente when the call starts and when it ends
C23_TestigoVacio ==
    \E p \in Procs :
        /\ Terminada(p, "obtenerFlujoPendiente")
        /\ llamada[p].rol = "gerente"
        /\ resultado[p].tipo = "ok"
        /\ resultado[p].valor.data = <<>>
        /\ Fila(1).estado = PENDIENTE_GERENCIA
        /\ Fila(1).monto_total = 5000000
        /\ Cardinality(FilasAprobaciones(1)) = 2

====
